---- MODULE Spec2Model ----
(***************************************************************************)
(* A model of the NVT (RFC 854) stack of this repository: the codec and    *)
(* the session of src/nvt.py, the server worker of src/telnet_server.py    *)
(* and the client of src/web_client.py.                                    *)
(*                                                                         *)
(* Python values are modelled with their type where the code's behaviour   *)
(* depends on it: a bytes object is B(<<b1, ..>>) (each b in 0..255), a     *)
(* str is S(<<c1, ..>>) (each c a code point).  Inside the codec the raw    *)
(* sequences are used.                                                     *)
(***************************************************************************)
EXTENDS Integers, Sequences, FiniteSets, TLC

\* ------------------------------------------------------------------------
\* Bounds of the model
\* ------------------------------------------------------------------------
\* longest raw byte stream fed to a decoder in SpecCodec
MaxStream == 3
\* longest text given to encode_text in SpecCodec
MaxText == 4
\* most decode_bytes calls a stream is fed through in SpecCodec
MaxCalls == 2
\* longest chunk given to receive_data in SpecSession
MaxChunk == 3
\* the number of exec_command calls
MaxExecs == 1
\* longest file uploaded or downloaded in SpecTransfer
MaxFile == 2
\* the number of upload_file and download_file calls in SpecTransfer
MaxTransfers == 1
\* longest short read of a socket in SpecTransfer: a read gives all the bytes
\* it can, or only the first 1..MaxShort of them
MaxShort == 1
\* most bytes in flight lost when a connection drops in SpecTransfer
MaxLost == 1
\* number of threads calling the client's operations in SpecLock
MaxCallers == 2
\* longest text given to encode_with_padding in SpecPad
MaxPadText == 3
\* largest chunk_size given to encode_with_padding in SpecPad
MaxPad == 5
\* the longest file name a client puts in an upload command
MaxName == 4
\* the longest msg given to send_message
MaxMsg == 2
\* the number of send_message calls
MaxMessages == 1
\* the most bytes of a frame that arrive ahead of the rest of it
MaxSplit == 1
\* the number of passes of the command loop a worker of SpecPool makes
MaxRounds == 2
\* the sockets the client creates in one run
MaxSockets == 2
\* the bytes one f.read of a download returns: CHUNK_SIZE scaled down so that
\* a file of MaxFile bytes takes more than one read
MaxRead == 1
\* the size of a frame: CHUNK_SIZE, which the code sets to 4096
\* (src/telnet_server.py:11, src/web_client.py:9), scaled down so that a frame
\* is a sequence the checker can hold; every reply text of the code fits in it
CHUNK_SIZE == 128

\* ------------------------------------------------------------------------
\* src/nvt.py: constants
\* ------------------------------------------------------------------------
NULL == 0
LF == 10
CR == 13
SE == 240
NOP == 241
DM == 242
BRK == 243
IP == 244
AO == 245
AYT == 246
EC == 247
EL == 248
GA == 249
SB == 250
WILL == 251
WONT == 252
DO == 253
DONT == 254
IAC == 255
ECHO == 1
SUPPRESS_GO_AHEAD == 3
TERMINAL_TYPE == 24
LINEMODE == 34

CRLF == <<CR, LF>>
CR_NULL == <<CR, NULL>>

\* ------------------------------------------------------------------------
\* Python values
\* ------------------------------------------------------------------------
\* a bytes object
B(seq) == [t |-> "bytes", v |-> seq]
\* a str object
S(seq) == [t |-> "str", v |-> seq]
\* None
None == [t |-> "None", v |-> <<>>]

\* U+FFFD, what errors='replace' puts for undecodable bytes
REPLACEMENT == 65533
\* '?', what errors='replace' puts for an unencodable code point
QUESTION == 63

\* the code points str.strip() and str.split() take for whitespace
IsSpace(c) ==
    \/ c = 32
    \/ c \in 9..13
    \/ c \in 28..32
    \/ c \in {133, 160, 5760, 8232, 8233, 8239, 8287, 12288}
    \/ c \in 8192..8202

\* all sequences over alphabet of length at most n
SeqsUpTo(alphabet, n) == UNION {[1..k -> alphabet] : k \in 0..n}

\* Loops.  A loop of the code over the positions lo..hi of its input is an
\* operator XLoop(.., st, lo, hi): st is the loop's state before position lo, the
\* value is its state after position hi.  The range is taken in halves, the left
\* half first and its final state (left) computed before the right half starts:
\* the same left-to-right loop, evaluated at a depth of log(hi - lo).  A range
\* in which the loop body only copies its input is copied in one step.
\* A value the code binds to a name and uses more than once is the argument of
\* a local operator.

\* s[i..] (1-based), the rest of a sequence from position i
From(s, i) == SubSeq(s, i, Len(s))

\* does sub occur in s at position i
MatchAt(s, sub, i) ==
    /\ i + Len(sub) - 1 <= Len(s)
    /\ \A j \in 1..Len(sub) : s[i + j - 1] = sub[j]

\* bytes.replace(old, new) / str.replace: left to right, non-overlapping
\* (old is not empty); st.skip counts the positions of a match still to pass
ReplaceStep(s, old, new, st, i) ==
    IF st.skip > 0 THEN [st EXCEPT !.skip = @ - 1]
    ELSE IF MatchAt(s, old, i) THEN [out |-> st.out \o new, skip |-> Len(old) - 1]
    ELSE [st EXCEPT !.out = Append(@, s[i])]

RECURSIVE ReplaceLoop(_, _, _, _, _, _)
ReplaceLoop(s, old, new, st, lo, hi) ==
    IF lo > hi THEN st
    ELSE IF lo = hi THEN ReplaceStep(s, old, new, st, lo)
    ELSE IF st.skip = 0 /\ \A i \in lo..hi : s[i] # old[1]
    THEN [st EXCEPT !.out = @ \o SubSeq(s, lo, hi)]
    ELSE LET mid == (lo + hi) \div 2
         IN  CHOOSE r \in {ReplaceLoop(s, old, new, left, mid + 1, hi) :
                              left \in {ReplaceLoop(s, old, new, st, lo, mid)}} : TRUE

Replace(s, old, new) == ReplaceLoop(s, old, new, [out |-> <<>>, skip |-> 0], 1, Len(s)).out

\* str.strip(): drop leading and trailing whitespace
Strip(s) ==
    IF \A i \in 1..Len(s) : IsSpace(s[i]) THEN <<>>
    ELSE SubSeq(s,
                CHOOSE i \in 1..Len(s) :
                    ~IsSpace(s[i]) /\ \A j \in 1..(i - 1) : IsSpace(s[j]),
                CHOOSE i \in 1..Len(s) :
                    ~IsSpace(s[i]) /\ \A j \in (i + 1)..Len(s) : IsSpace(s[j]))

\* ------------------------------------------------------------------------
\* UTF-8, as str.encode('utf-8', errors='replace') and
\* bytes.decode('utf-8', errors='replace') compute it
\* ------------------------------------------------------------------------
Utf8EncodeChar(c) ==
    IF c < 128 THEN <<c>>
    ELSE IF c < 2048 THEN <<192 + (c \div 64), 128 + (c % 64)>>
    ELSE IF c \in 55296..57343 THEN <<QUESTION>>
    ELSE IF c < 65536
         THEN <<224 + (c \div 4096), 128 + ((c \div 64) % 64), 128 + (c % 64)>>
    ELSE <<240 + (c \div 262144), 128 + ((c \div 4096) % 64),
           128 + ((c \div 64) % 64), 128 + (c % 64)>>

RECURSIVE Utf8EncodeLoop(_, _, _, _)
Utf8EncodeLoop(cps, out, lo, hi) ==
    IF lo > hi THEN out
    ELSE IF lo = hi THEN out \o Utf8EncodeChar(cps[lo])
    ELSE IF \A i \in lo..hi : cps[i] < 128 THEN out \o SubSeq(cps, lo, hi)
    ELSE LET mid == (lo + hi) \div 2
         IN  CHOOSE r \in {Utf8EncodeLoop(cps, left, mid + 1, hi) :
                              left \in {Utf8EncodeLoop(cps, out, lo, mid)}} : TRUE

Utf8Encode(cps) == Utf8EncodeLoop(cps, <<>>, 1, Len(cps))

IsCont(b) == b \in 128..191

\* the range the second byte of a sequence led by b0 must lie in
SecondOk(b0, b1) ==
    IF b0 = 224 THEN b1 \in 160..191
    ELSE IF b0 = 237 THEN b1 \in 128..159
    ELSE IF b0 = 240 THEN b1 \in 144..191
    ELSE IF b0 = 244 THEN b1 \in 128..143
    ELSE IsCont(b1)

\* one step of the decoder at position i: [cp |-> code point, n |-> bytes used]
Utf8DecodeAt(s, i) ==
    LET b0 == s[i]
        has(k) == i + k <= Len(s)
        bad(n) == [cp |-> REPLACEMENT, n |-> n]
    IN  IF b0 < 128 THEN [cp |-> b0, n |-> 1]
        ELSE IF b0 \in 194..223
             THEN IF has(1) /\ IsCont(s[i + 1])
                  THEN [cp |-> (b0 - 192) * 64 + (s[i + 1] - 128), n |-> 2]
                  ELSE bad(1)
        ELSE IF b0 \in 224..239
             THEN IF ~(has(1) /\ SecondOk(b0, s[i + 1])) THEN bad(1)
                  ELSE IF ~(has(2) /\ IsCont(s[i + 2])) THEN bad(2)
                  ELSE [cp |-> (b0 - 224) * 4096 + (s[i + 1] - 128) * 64 + (s[i + 2] - 128),
                        n |-> 3]
        ELSE IF b0 \in 240..244
             THEN IF ~(has(1) /\ SecondOk(b0, s[i + 1])) THEN bad(1)
                  ELSE IF ~(has(2) /\ IsCont(s[i + 2])) THEN bad(2)
                  ELSE IF ~(has(3) /\ IsCont(s[i + 3])) THEN bad(3)
                  ELSE [cp |-> (b0 - 240) * 262144 + (s[i + 1] - 128) * 4096
                                + (s[i + 2] - 128) * 64 + (s[i + 3] - 128),
                        n |-> 4]
        ELSE bad(1)

\* st.skip counts the bytes of the last sequence still to pass
Utf8DecodeStep(s, st, i) ==
    IF st.skip > 0 THEN [st EXCEPT !.skip = @ - 1]
    ELSE LET Take(r) == [out |-> Append(st.out, r.cp), skip |-> r.n - 1]
         IN  Take(Utf8DecodeAt(s, i))

RECURSIVE Utf8DecodeLoop(_, _, _, _)
Utf8DecodeLoop(s, st, lo, hi) ==
    IF lo > hi THEN st
    ELSE IF lo = hi THEN Utf8DecodeStep(s, st, lo)
    ELSE IF st.skip = 0 /\ \A i \in lo..hi : s[i] < 128
    THEN [st EXCEPT !.out = @ \o SubSeq(s, lo, hi)]
    ELSE LET mid == (lo + hi) \div 2
         IN  CHOOSE r \in {Utf8DecodeLoop(s, left, mid + 1, hi) :
                              left \in {Utf8DecodeLoop(s, st, lo, mid)}} : TRUE

Utf8Decode(s) == Utf8DecodeLoop(s, [out |-> <<>>, skip |-> 0], 1, Len(s)).out

\* ------------------------------------------------------------------------
\* src/nvt.py: NVTEncoder
\* ------------------------------------------------------------------------
\* encode_text's loop body without the look at the previous byte: every LF
\* becomes CR LF, also after a CR
EncodeByte_NoCrCheck(result, byte) ==
    IF byte = IAC THEN result \o <<IAC, IAC>>
    ELSE IF byte = LF THEN result \o CRLF
    ELSE Append(result, byte)

\* the body of encode_text's loop: what one byte of the UTF-8 data adds to result
EncodeByte(result, byte) ==
    IF byte = IAC THEN result \o <<IAC, IAC>>
    ELSE IF byte = LF
         THEN IF Len(result) > 0 /\ result[Len(result)] = CR
              THEN Append(result, LF)
              ELSE result \o CRLF
    ELSE IF byte = CR THEN Append(result, CR)
    ELSE Append(result, byte)

\* for byte in data: ...
RECURSIVE EncodeLoop(_, _, _, _)
EncodeLoop(data, result, lo, hi) ==
    IF lo > hi THEN result
    ELSE IF lo = hi THEN EncodeByte(result, data[lo])
    ELSE IF \A i \in lo..hi : data[i] \notin {IAC, LF}
    THEN result \o SubSeq(data, lo, hi)
    ELSE LET mid == (lo + hi) \div 2
         IN  CHOOSE r \in {EncodeLoop(data, left, mid + 1, hi) :
                              left \in {EncodeLoop(data, result, lo, mid)}} : TRUE

\* encode_text(text): text is a str S(..) or a bytes B(..); returns the raw bytes
encode_text(text) ==
    LET Encode(data) == EncodeLoop(data, <<>>, 1, Len(data))
        Finish(result) ==
            IF Len(result) > 0 /\ result[Len(result)] = CR
            THEN Append(result, NULL)
            ELSE result
    IN  Finish(Encode(Utf8Encode(IF text.t = "bytes" THEN Utf8Decode(text.v) ELSE text.v)))

\* create_command(command, option): command and option are bytes objects (or
\* option None); an empty bytes object is falsy as None is.  The raw bytes.
create_command(command, option) ==
    IF option # None /\ option.v # <<>>
    THEN <<IAC>> \o command.v \o option.v
    ELSE <<IAC>> \o command.v

\* ' ', the padding byte
SPACE == 32

\* encode_with_padding padding one byte short
encode_with_padding_OneShort(text, chunk_size) ==
    LET Pad(encoded) ==
            IF Len(encoded) < chunk_size
            THEN encoded \o [i \in 1..(chunk_size - Len(encoded) - 1) |-> SPACE]
            ELSE encoded
    IN  Pad(encode_text(text))

encode_with_padding(text, chunk_size) ==
    LET Pad(encoded) ==
            IF Len(encoded) < chunk_size
            THEN encoded \o [i \in 1..(chunk_size - Len(encoded)) |-> SPACE]
            ELSE encoded
    IN  Pad(encode_text(text))

\* ------------------------------------------------------------------------
\* src/nvt.py: NVTDecoder
\* ------------------------------------------------------------------------
\* 'COMMAND', the tag of a simple command in the command list
COMMAND == <<67, 79, 77, 77, 65, 78, 68>>

\* bytes.decode('latin-1'): every byte is the code point of its value
Latin1Decode(b) == S(b.v)

NegotiationBytes == {WILL, WONT, DO, DONT}
SimpleBytes == {SE, NOP, DM, BRK, IP, AO, AYT, EC, EL, GA}

\* NVTDecoder(): the decode cursor after construction (buffer is never used)
NVTDecoder == [in_iac |-> FALSE, iac_command |-> None]

\* the loop body leaving iac_command set after the option byte
DecodeByte_KeepsVerb(st, byte) ==
    IF st.in_iac
    THEN IF st.iac_command = None
         THEN IF byte = IAC
              THEN [st EXCEPT !.text_buffer = Append(@, IAC), !.in_iac = FALSE]
              ELSE IF byte \in NegotiationBytes
                   THEN [st EXCEPT !.iac_command = B(<<byte>>)]
              ELSE IF byte \in SimpleBytes
                   THEN [st EXCEPT !.commands = Append(@, <<S(COMMAND), B(<<byte>>)>>),
                                   !.in_iac = FALSE]
              ELSE [st EXCEPT !.in_iac = FALSE]
         ELSE [st EXCEPT !.commands = Append(@, <<Latin1Decode(st.iac_command), B(<<byte>>)>>),
                         !.in_iac = FALSE]
    ELSE IF byte = IAC THEN [st EXCEPT !.in_iac = TRUE]
    ELSE [st EXCEPT !.text_buffer = Append(@, byte)]

\* the loop body keeping an unknown byte after IAC as text
DecodeByte_KeepUnknown(st, byte) ==
    IF st.in_iac
    THEN IF st.iac_command = None
         THEN IF byte \in NegotiationBytes
              THEN [st EXCEPT !.iac_command = B(<<byte>>)]
              ELSE IF byte \in SimpleBytes
                   THEN [st EXCEPT !.commands = Append(@, <<S(COMMAND), B(<<byte>>)>>),
                                   !.in_iac = FALSE]
              ELSE [st EXCEPT !.text_buffer = Append(@, byte), !.in_iac = FALSE]
         ELSE [st EXCEPT !.commands = Append(@, <<Latin1Decode(st.iac_command), B(<<byte>>)>>),
                         !.in_iac = FALSE,
                         !.iac_command = None]
    ELSE IF byte = IAC THEN [st EXCEPT !.in_iac = TRUE]
    ELSE [st EXCEPT !.text_buffer = Append(@, byte)]

\* the body of decode_bytes's loop on one byte; st holds the cursor and the
\* call's text_buffer and commands
DecodeByte(st, byte) ==
    IF st.in_iac
    THEN IF st.iac_command = None
         THEN IF byte = IAC
              THEN [st EXCEPT !.text_buffer = Append(@, IAC), !.in_iac = FALSE]
              ELSE IF byte \in NegotiationBytes
                   THEN [st EXCEPT !.iac_command = B(<<byte>>)]
              ELSE IF byte \in SimpleBytes
                   THEN [st EXCEPT !.commands = Append(@, <<S(COMMAND), B(<<byte>>)>>),
                                   !.in_iac = FALSE]
              ELSE [st EXCEPT !.in_iac = FALSE]
         ELSE [st EXCEPT !.commands = Append(@, <<Latin1Decode(st.iac_command), B(<<byte>>)>>),
                         !.in_iac = FALSE,
                         !.iac_command = None]
    ELSE IF byte = IAC THEN [st EXCEPT !.in_iac = TRUE]
    ELSE [st EXCEPT !.text_buffer = Append(@, byte)]

\* while i < len(data): ...; i += 1
RECURSIVE DecodeLoop(_, _, _, _)
DecodeLoop(data, st, lo, hi) ==
    IF lo > hi THEN st
    ELSE IF lo = hi THEN DecodeByte(st, data[lo])
    ELSE IF ~st.in_iac /\ \A i \in lo..hi : data[i] # IAC
    THEN [st EXCEPT !.text_buffer = @ \o SubSeq(data, lo, hi)]
    ELSE LET mid == (lo + hi) \div 2
         IN  CHOOSE r \in {DecodeLoop(data, left, mid + 1, hi) :
                              left \in {DecodeLoop(data, st, lo, mid)}} : TRUE

\* the end of decode_bytes: line endings, UTF-8 with errors='replace' (which
\* never raises, so the latin-1 fallback is never taken), strip()
DecodeText(text_buffer) ==
    LET d1 == Replace(text_buffer, CRLF, <<LF>>)
        d2 == Replace(d1, CR_NULL, <<LF>>)
        d3 == Replace(d2, <<CR>>, <<LF>>)
    IN  Strip(Utf8Decode(d3))

\* decoder.decode_bytes(data): [text, commands] returned and the cursor left.
\* text is the code points of the returned str; a command is <<cmd, option>>
decode_bytes(decoder, data) ==
    LET Result(st) ==
            [text |-> DecodeText(st.text_buffer),
             commands |-> st.commands,
             decoder |-> [in_iac |-> st.in_iac, iac_command |-> st.iac_command]]
    IN  Result(DecodeLoop(data,
                          [in_iac |-> decoder.in_iac, iac_command |-> decoder.iac_command,
                           text_buffer |-> <<>>, commands |-> <<>>],
                          1, Len(data)))

\* NVTDecoder.decode_simple(data)
decode_simple(data) == decode_bytes(NVTDecoder, data).text

encode_nvt(text) == encode_text(text)

decode_nvt(data) == decode_simple(data)

\* ------------------------------------------------------------------------
\* src/nvt.py: NVTSession
\* ------------------------------------------------------------------------
\* a dict is the function from its keys to their values
EmptyDict == [k \in {} |-> FALSE]

\* d[k] = v
DictSet(d, k, v) == [x \in (DOMAIN d) \cup {k} |-> IF x = k THEN v ELSE d[x]]

\* NVTSession(): the session after construction (the encoder has no state)
NVTSession ==
    [local_options |-> EmptyDict, remote_options |-> EmptyDict, decoder |-> NVTDecoder]

\* session.negotiate_option(option_type, enable): the bytes to send
negotiate_option(option_type, enable) ==
    IF enable THEN create_command(B(<<WILL>>), option_type)
    ELSE create_command(B(<<WONT>>), option_type)

\* respond_to_option with the WONT and DONT branches forgotten
respond_to_option_NoDisable(session, command, option, accept) ==
    IF command = B(<<WILL>>) \/ command = B(<<WONT>>)
    THEN IF accept /\ command = B(<<WILL>>)
         THEN [session |-> [session EXCEPT !.remote_options = DictSet(@, option, TRUE)],
               ret |-> create_command(B(<<DO>>), option)]
         ELSE [session |-> session, ret |-> create_command(B(<<DONT>>), option)]
    ELSE IF accept /\ command = B(<<DO>>)
         THEN [session |-> [session EXCEPT !.local_options = DictSet(@, option, TRUE)],
               ret |-> create_command(B(<<WILL>>), option)]
         ELSE [session |-> session, ret |-> create_command(B(<<WONT>>), option)]

\* session.respond_to_option(command, option, accept): the session after the
\* call and the bytes returned.  command and option are Python values: a
\* command that is no bytes object equals none of WILL, WONT, DO, DONT
respond_to_option(session, command, option, accept) ==
    IF command = B(<<WILL>>)
    THEN IF accept
         THEN [session |-> [session EXCEPT !.remote_options = DictSet(@, option, TRUE)],
               ret |-> create_command(B(<<DO>>), option)]
         ELSE [session |-> session, ret |-> create_command(B(<<DONT>>), option)]
    ELSE IF command = B(<<WONT>>)
         THEN [session |-> [session EXCEPT !.remote_options = DictSet(@, option, FALSE)],
               ret |-> create_command(B(<<DONT>>), option)]
    ELSE IF command = B(<<DO>>)
         THEN IF accept
              THEN [session |-> [session EXCEPT !.local_options = DictSet(@, option, TRUE)],
                    ret |-> create_command(B(<<WILL>>), option)]
              ELSE [session |-> session, ret |-> create_command(B(<<WONT>>), option)]
    ELSE IF command = B(<<DONT>>)
         THEN [session |-> [session EXCEPT !.local_options = DictSet(@, option, FALSE)],
               ret |-> create_command(B(<<WONT>>), option)]
    ELSE [session |-> session, ret |-> <<>>]

\* session.send_text(text, chunk_size); chunk_size 0 stands for None (both falsy)
send_text(text, chunk_size) ==
    IF chunk_size # 0 THEN encode_with_padding(text, chunk_size) ELSE encode_text(text)

\* the options receive_data accepts
AcceptedOptions == {B(<<ECHO>>), B(<<SUPPRESS_GO_AHEAD>>), B(<<TERMINAL_TYPE>>)}

\* the body of receive_data's loop over the decoded commands; st holds the
\* session and the responses collected
ReceiveCommand(st, command) ==
    LET cmd == command[1]
        opt == command[2]
        Collect(r) ==
            [session |-> r.session,
             responses |-> IF r.ret # <<>> THEN Append(st.responses, r.ret)
                           ELSE st.responses]
    IN  IF cmd \in {B(<<WILL>>), B(<<WONT>>), B(<<DO>>), B(<<DONT>>)}
        THEN Collect(respond_to_option(st.session, cmd, opt, opt \in AcceptedOptions))
        ELSE st

\* for cmd, opt in commands: ...
RECURSIVE ReceiveLoop(_, _, _, _)
ReceiveLoop(commands, st, lo, hi) ==
    IF lo > hi THEN st
    ELSE IF lo = hi THEN ReceiveCommand(st, commands[lo])
    ELSE LET mid == (lo + hi) \div 2
         IN  CHOOSE r \in {ReceiveLoop(commands, left, mid + 1, hi) :
                              left \in {ReceiveLoop(commands, st, lo, mid)}} : TRUE

\* session.receive_data(data): [text, responses] returned and the session left
receive_data(session, data) ==
    LET Respond(d) ==
            LET Result(st) ==
                    [text |-> d.text, responses |-> st.responses, session |-> st.session]
            IN  Result(ReceiveLoop(d.commands,
                                   [session |-> [session EXCEPT !.decoder = d.decoder],
                                    responses |-> <<>>],
                                   1, Len(d.commands)))
    IN  Respond(decode_bytes(session.decoder, data))

\* ------------------------------------------------------------------------
\* str operations of the server and the client (a str is the sequence of its
\* code points)
\* ------------------------------------------------------------------------
\* the starts of the maximal runs of non-whitespace characters of s
WordStarts(s) == {i \in 1..Len(s) : ~IsSpace(s[i]) /\ (i = 1 \/ IsSpace(s[i - 1]))}

\* the end of the run that starts at i
WordEnd(s, i) ==
    CHOOSE j \in i..Len(s) :
        /\ \A k \in i..j : ~IsSpace(s[k])
        /\ (j = Len(s) \/ IsSpace(s[j + 1]))

\* str.split(): the runs of non-whitespace characters, in order
Split(s) ==
    LET Words(starts) ==
            [n \in 1..Cardinality(starts) |->
                LET Word(i) == SubSeq(s, i, WordEnd(s, i))
                IN  Word(CHOOSE a \in starts : Cardinality({b \in starts : b < a}) = n - 1)]
    IN  Words(WordStarts(s))

\* str.lower() on the code points below U+0100
Lower(s) ==
    [i \in 1..Len(s) |->
        IF s[i] \in 65..90 \/ (s[i] \in 192..222 /\ s[i] # 215) THEN s[i] + 32 ELSE s[i]]

\* sep.join(parts)
RECURSIVE Join(_, _)
Join(sep, parts) ==
    IF Len(parts) = 0 THEN <<>>
    ELSE IF Len(parts) = 1 THEN parts[1]
    ELSE parts[1] \o sep \o Join(sep, Tail(parts))

\* str.find(sub): the first index (from 1) where sub occurs in s, 0 if none
Find(s, sub) ==
    LET First(hits) == IF hits = {} THEN 0 ELSE CHOOSE i \in hits : \A j \in hits : i <= j
    IN  First({i \in 1..(Len(s) - Len(sub) + 1) : MatchAt(s, sub, i)})

\* sub in s
Contains(s, sub) == Find(s, sub) # 0

\* s.split(sub, 1)
SplitOnce(s, sub) ==
    LET At(i) == IF i = 0 THEN <<s>>
                 ELSE <<SubSeq(s, 1, i - 1), From(s, i + Len(sub))>>
    IN  At(Find(s, sub))

\* shlex.split(s): shlex(s, posix=True) with whitespace_split set and no
\* commenters, read token by token
QUOTE == 39
DQUOTE == 34
BACKSLASH == 92
TAB == 9
ShlexWhitespace == {SPACE, TAB, CR, LF}
ShlexQuotes == {QUOTE, DQUOTE}
ShlexEscape == {BACKSLASH}
ShlexEscapedQuotes == {DQUOTE}
\* the lexer states ' ' and 'a'
LEX_SPACE == 32
LEX_WORD == 97

Shlex ==
    [state |-> LEX_SPACE, escapedstate |-> LEX_SPACE, token |-> <<>>,
     quoted |-> FALSE, tokens |-> <<>>, error |-> <<>>]

\* read_token returns the token: the tokenizer starts the next one
ShlexBreak(lex) ==
    IF lex.token # <<>> \/ lex.quoted
    THEN [lex EXCEPT !.tokens = Append(lex.tokens, lex.token),
                     !.token = <<>>, !.quoted = FALSE]
    ELSE lex

\* one character read by read_token
ShlexChar(lex, nextchar) ==
    IF lex.state = LEX_SPACE THEN
        IF nextchar \in ShlexWhitespace THEN ShlexBreak(lex)
        ELSE IF nextchar \in ShlexEscape
             THEN [lex EXCEPT !.escapedstate = LEX_WORD, !.state = nextchar]
        ELSE IF nextchar \in ShlexQuotes THEN [lex EXCEPT !.state = nextchar]
        ELSE [lex EXCEPT !.token = <<nextchar>>, !.state = LEX_WORD]
    ELSE IF lex.state \in ShlexQuotes THEN
        IF nextchar = lex.state THEN [lex EXCEPT !.quoted = TRUE, !.state = LEX_WORD]
        ELSE IF nextchar \in ShlexEscape /\ lex.state \in ShlexEscapedQuotes
             THEN [lex EXCEPT !.quoted = TRUE, !.escapedstate = lex.state,
                              !.state = nextchar]
        ELSE [lex EXCEPT !.quoted = TRUE, !.token = Append(lex.token, nextchar)]
    ELSE IF lex.state \in ShlexEscape THEN
        LET kept == IF /\ lex.escapedstate \in ShlexQuotes
                       /\ nextchar # lex.state
                       /\ nextchar # lex.escapedstate
                    THEN Append(lex.token, lex.state)
                    ELSE lex.token
        IN  [lex EXCEPT !.token = Append(kept, nextchar), !.state = lex.escapedstate]
    ELSE \* LEX_WORD
        IF nextchar \in ShlexWhitespace THEN ShlexBreak([lex EXCEPT !.state = LEX_SPACE])
        ELSE IF nextchar \in ShlexQuotes THEN [lex EXCEPT !.state = nextchar]
        ELSE IF nextchar \in ShlexEscape
             THEN [lex EXCEPT !.escapedstate = LEX_WORD, !.state = nextchar]
        ELSE [lex EXCEPT !.token = Append(lex.token, nextchar)]

RECURSIVE ShlexLoop(_, _, _, _)
ShlexLoop(s, lex, lo, hi) ==
    IF lo > hi THEN lex
    ELSE IF lo = hi THEN ShlexChar(lex, s[lo])
    ELSE LET mid == (lo + hi) \div 2
         IN  CHOOSE r \in {ShlexLoop(s, left, mid + 1, hi) :
                              left \in {ShlexLoop(s, lex, lo, mid)}} : TRUE

\* "No closing quotation", "No escaped character"
NO_CLOSING_QUOTATION ==
    <<78, 111, 32, 99, 108, 111, 115, 105, 110, 103, 32, 113, 117, 111, 116, 97, 116, 105,
      111, 110>>
NO_ESCAPED_CHARACTER ==
    <<78, 111, 32, 101, 115, 99, 97, 112, 101, 100, 32, 99, 104, 97, 114, 97, 99, 116, 101, 114>>

\* the end of the input met by read_token
ShlexEof(lex) ==
    IF lex.state \in ShlexQuotes THEN [lex EXCEPT !.error = NO_CLOSING_QUOTATION]
    ELSE IF lex.state \in ShlexEscape THEN [lex EXCEPT !.error = NO_ESCAPED_CHARACTER]
    ELSE ShlexBreak(lex)

\* [parts, error]: the tokens, or the message of the ValueError raised
shlex_split(s) ==
    LET Result(lex) == [parts |-> lex.tokens, error |-> lex.error]
    IN  Result(ShlexEof(ShlexLoop(s, Shlex, 1, Len(s))))

\* ------------------------------------------------------------------------
\* src/telnet_server.py, src/web_client.py: the texts of the protocol, as
\* sequences of code points
\* ------------------------------------------------------------------------
\* 'upload'
VERB_UPLOAD == <<117, 112, 108, 111, 97, 100>>
\* 'exec'
VERB_EXEC == <<101, 120, 101, 99>>
\* 'download'
VERB_DOWNLOAD == <<100, 111, 119, 110, 108, 111, 97, 100>>
\* 'quit'
VERB_QUIT == <<113, 117, 105, 116>>
\* 'send'
VERB_SEND == <<115, 101, 110, 100>>
\* 'message'
VERB_MESSAGE == <<109, 101, 115, 115, 97, 103, 101>>
\* '[Server] Error: No command provided\n'
MSG_NO_COMMAND ==
    <<91, 83, 101, 114, 118, 101, 114, 93, 32, 69, 114, 114, 111, 114, 58, 32, 78, 111, 32, 99,
      111, 109, 109, 97, 110, 100, 32, 112, 114, 111, 118, 105, 100, 101, 100, 10>>
\* '[Server] Error: Command timeout\n'
MSG_TIMEOUT ==
    <<91, 83, 101, 114, 118, 101, 114, 93, 32, 69, 114, 114, 111, 114, 58, 32, 67, 111, 109, 109,
      97, 110, 100, 32, 116, 105, 109, 101, 111, 117, 116, 10>>
\* '[Server] Goodbye!\n'
MSG_GOODBYE == <<91, 83, 101, 114, 118, 101, 114, 93, 32, 71, 111, 111, 100, 98, 121, 101, 33, 10>>
\* '[Server] Error: '
MSG_ERROR == <<91, 83, 101, 114, 118, 101, 114, 93, 32, 69, 114, 114, 111, 114, 58, 32>>
\* '[Server] Unknown command: '
MSG_UNKNOWN ==
    <<91, 83, 101, 114, 118, 101, 114, 93, 32, 85, 110, 107, 110, 111, 119, 110, 32, 99, 111, 109,
      109, 97, 110, 100, 58, 32>>
\* '[Server] Available commands: send message, upload, download, exec, quit\n'
MSG_AVAILABLE ==
    <<91, 83, 101, 114, 118, 101, 114, 93, 32, 65, 118, 97, 105, 108, 97, 98, 108, 101, 32, 99,
      111, 109, 109, 97, 110, 100, 115, 58, 32, 115, 101, 110, 100, 32, 109, 101, 115, 115, 97, 103,
      101, 44, 32, 117, 112, 108, 111, 97, 100, 44, 32, 100, 111, 119, 110, 108, 111, 97, 100, 44,
      32, 101, 120, 101, 99, 44, 32, 113, 117, 105, 116, 10>>
\* "Command '"
MSG_COMMAND == <<67, 111, 109, 109, 97, 110, 100, 32, 39>>
\* "' not allowed. Try: "
MSG_NOT_ALLOWED ==
    <<39, 32, 110, 111, 116, 32, 97, 108, 108, 111, 119, 101, 100, 46, 32, 84, 114, 121, 58, 32>>
\* '...'
MSG_DOTS == <<46, 46, 46>>
\* '[Server response]\nOutput:\n'
MSG_RESPONSE ==
    <<91, 83, 101, 114, 118, 101, 114, 32, 114, 101, 115, 112, 111, 110, 115, 101, 93, 10, 79, 117,
      116, 112, 117, 116, 58, 10>>
\* '\nError:\n'
MSG_RESPONSE_ERROR == <<10, 69, 114, 114, 111, 114, 58, 10>>
\* '(empty)'
STR_EMPTY == <<40, 101, 109, 112, 116, 121, 41>>
\* '(none)'
STR_NONE == <<40, 110, 111, 110, 101, 41>>
\* 'unknown'
STR_UNKNOWN == <<117, 110, 107, 110, 111, 119, 110>>
\* ', '
STR_COMMA == <<44, 32>>
\* the text of a FileNotFoundError: "[Errno 2] No such file or directory: '"
STR_ERRNO2 ==
    <<91, 69, 114, 114, 110, 111, 32, 50, 93, 32, 78, 111, 32, 115, 117, 99, 104, 32, 102, 105,
      108, 101, 32, 111, 114, 32, 100, 105, 114, 101, 99, 116, 111, 114, 121, 58, 32, 39>>
\* 'exec '
EXEC_PREFIX == <<101, 120, 101, 99, 32>>
\* 'Output:'
OUTPUT_TAG == <<79, 117, 116, 112, 117, 116, 58>>
\* 'Error:'
ERROR_TAG == <<69, 114, 114, 111, 114, 58>>

\* ['dir', 'cd', 'type', 'echo', 'whoami', 'date', 'time', 'set']
ALLOWED_NT ==
    <<<<100, 105, 114>>,
      <<99, 100>>,
      <<116, 121, 112, 101>>,
      <<101, 99, 104, 111>>,
      <<119, 104, 111, 97, 109, 105>>,
      <<100, 97, 116, 101>>,
      <<116, 105, 109, 101>>,
      <<115, 101, 116>>>>
\* ['ls', 'pwd', 'cat', 'whoami', 'date', 'echo', 'ps', 'id', 'uname']
ALLOWED_UNIX ==
    <<<<108, 115>>,
      <<112, 119, 100>>,
      <<99, 97, 116>>,
      <<119, 104, 111, 97, 109, 105>>,
      <<100, 97, 116, 101>>,
      <<101, 99, 104, 111>>,
      <<112, 115>>,
      <<105, 100>>,
      <<117, 110, 97, 109, 101>>>>
\* ['echo', 'whoami']
ALLOWED_COMMON ==
    <<<<101, 99, 104, 111>>,
      <<119, 104, 111, 97, 109, 105>>>>

\* ------------------------------------------------------------------------
\* Numbers in text: str(n), int(s) and re.search(r"(\d+)", s)
\* ------------------------------------------------------------------------
ZERO == 48
NINE == 57
PLUS == 43
MINUS == 45
UNDERSCORE == 95

IsDigit(c) == c >= ZERO /\ c <= NINE

\* str(n) for n >= 0
RECURSIVE IntToStr(_)
IntToStr(n) ==
    IF n < 10 THEN <<ZERO + n>> ELSE Append(IntToStr(n \div 10), ZERO + (n % 10))

\* the value of the digits of s, its underscores skipped
RECURSIVE DigitsValue(_, _)
DigitsValue(s, acc) ==
    IF s = <<>> THEN acc
    ELSE IF Head(s) = UNDERSCORE THEN DigitsValue(Tail(s), acc)
    ELSE DigitsValue(Tail(s), 10 * acc + (Head(s) - ZERO))

\* int(s): white space around the number, one sign, digits with single
\* underscores between them; anything else raises ValueError (ok is FALSE)
ParseInt(s) ==
    LET Body(t) ==
            LET Number(neg, d) ==
                    IF /\ d # <<>>
                       /\ IsDigit(d[1])
                       /\ IsDigit(d[Len(d)])
                       /\ \A i \in 1..Len(d) : IsDigit(d[i]) \/ d[i] = UNDERSCORE
                       /\ \A i \in 1..(Len(d) - 1) : ~(d[i] = UNDERSCORE /\ d[i + 1] = UNDERSCORE)
                    THEN [ok |-> TRUE,
                          val |-> IF neg THEN 0 - DigitsValue(d, 0) ELSE DigitsValue(d, 0)]
                    ELSE [ok |-> FALSE, val |-> 0]
            IN  IF t # <<>> /\ t[1] \in {PLUS, MINUS}
                THEN Number(t[1] = MINUS, Tail(t))
                ELSE Number(FALSE, t)
    IN  Body(Strip(s))

\* re.search(r"(\d+)", s) and int(m.group(1)): the first run of digits in s
FirstNumber(s) ==
    LET Digits == {i \in 1..Len(s) : IsDigit(s[i])}
        Run(first) ==
            LET last == CHOOSE j \in first..Len(s) :
                            /\ \A i \in first..j : IsDigit(s[i])
                            /\ (j = Len(s) \/ ~IsDigit(s[j + 1]))
            IN  [found |-> TRUE, val |-> DigitsValue(SubSeq(s, first, last), 0)]
    IN  IF Digits = {} THEN [found |-> FALSE, val |-> 0]
        ELSE Run(CHOOSE i \in Digits : \A j \in Digits : i <= j)

\* ------------------------------------------------------------------------
\* The string literals of the transfer verbs
\* ------------------------------------------------------------------------
\* '[Server] Error: No filename provided\n'
MSG_NO_FILENAME ==
    <<91, 83, 101, 114, 118, 101, 114, 93, 32, 69, 114, 114, 111, 114, 58, 32, 78, 111, 32,
      102, 105, 108, 101, 110, 97, 109, 101, 32, 112, 114, 111, 118, 105, 100, 101, 100, 10>>
\* '[Server] Error: Invalid file size\n'
MSG_INVALID_SIZE ==
    <<91, 83, 101, 114, 118, 101, 114, 93, 32, 69, 114, 114, 111, 114, 58, 32, 73, 110, 118,
      97, 108, 105, 100, 32, 102, 105, 108, 101, 32, 115, 105, 122, 101, 10>>
\* '[Server] Received '
MSG_RECEIVED ==
    <<91, 83, 101, 114, 118, 101, 114, 93, 32, 82, 101, 99, 101, 105, 118, 101, 100, 32>>
\* " bytes and saved as '"
MSG_BYTES_SAVED ==
    <<32, 98, 121, 116, 101, 115, 32, 97, 110, 100, 32, 115, 97, 118, 101, 100, 32, 97, 115,
      32, 39>>
\* "'\n"
MSG_SAVED_END == <<39, 10>>
\* 'upload '
UPLOAD_PREFIX == <<117, 112, 108, 111, 97, 100, 32>>
\* 'download '
DOWNLOAD_PREFIX == <<100, 111, 119, 110, 108, 111, 97, 100, 32>>
\* b'0\n'
SIZE_ZERO == <<48, 10>>

\* ------------------------------------------------------------------------
\* src/telnet_server.py: one round of the worker's command loop.  A socket
\* read is given as [kind, data]: kind "data" with the bytes read, "eof"
\* (b'': the peer has closed), "timeout" or "error" (the read raised).
\* ------------------------------------------------------------------------
\* the members of a list
Range(s) == {s[i] : i \in DOMAIN s}

\* recv_nvt_data starting the session anew when the read gives nothing
recv_nvt_data_Reset(session, rcv) ==
    IF rcv.kind # "data"
    THEN [text |-> <<>>, session |-> NVTSession, responses |-> <<>>]
    ELSE LET Result(r) ==
                 [text |-> Strip(r.text), session |-> r.session, responses |-> r.responses]
         IN  Result(receive_data(session, rcv.data))

\* recv_nvt_data(given_socket, nvt_session): the text returned, the session
\* after the call and the responses it writes to the socket
recv_nvt_data(session, rcv) ==
    IF rcv.kind # "data"
    THEN [text |-> <<>>, session |-> session, responses |-> <<>>]
    ELSE LET Result(r) ==
                 [text |-> Strip(r.text), session |-> r.session, responses |-> r.responses]
         IN  Result(receive_data(session, rcv.data))

\* send_nvt_data(given_socket, nvt_session, text, padded): the bytes written
send_nvt_data(text, padded) ==
    IF padded THEN send_text(S(text), CHUNK_SIZE) ELSE send_text(S(text), 0)

\* allowed_cmds under os.name
allowed_cmds(name) ==
    (IF name = "nt" THEN ALLOWED_NT ELSE ALLOWED_UNIX) \o ALLOWED_COMMON

\* the allowlist test with only the emptiness of exec_parts looked at
NotAllowed_EmptyOnly(exec_parts, allowed) == exec_parts = <<>>

\* not exec_parts or exec_parts[0] not in allowed_cmds
NotAllowed(exec_parts, allowed) ==
    exec_parts = <<>> \/ exec_parts[1] \notin Range(allowed)

\* the message of the ValueError raised for a command that is not allowed
NotAllowedMessage(exec_parts, allowed) ==
    MSG_COMMAND \o (IF exec_parts # <<>> THEN exec_parts[1] ELSE STR_UNKNOWN)
      \o MSG_NOT_ALLOWED \o Join(STR_COMMA, SubSeq(allowed, 1, 5)) \o MSG_DOTS

\* what subprocess.run(exec_parts, ...) does: it completes with some stdout
\* and stderr, raises TimeoutExpired, or raises an OSError (no such program)
RunNone == [kind |-> "none", stdout |-> <<>>, stderr |-> <<>>]
\* '', 'a\n'
Stdouts == {<<>>, <<97, LF>>}
\* '', 'e\n'
Stderrs == {<<>>, <<101, LF>>}
RunOutcomes ==
    {[kind |-> "completed", stdout |-> o, stderr |-> e] : o \in Stdouts, e \in Stderrs}
    \cup {[kind |-> "timeout", stdout |-> <<>>, stderr |-> <<>>],
          [kind |-> "oserror", stdout |-> <<>>, stderr |-> <<>>]}

\* the try block of the exec branch on the command line exec_cmd: the reply
\* text, whether a process was spawned, and how the command ended
ExecCommand(exec_cmd, name, run) ==
    LET Try(allowed, lex) ==
            IF lex.error # <<>>
            THEN [reply |-> MSG_ERROR \o lex.error \o <<LF>>,
                  spawned |-> FALSE, kind |-> "rejected"]
            ELSE IF NotAllowed(lex.parts, allowed)
            THEN [reply |-> MSG_ERROR \o NotAllowedMessage(lex.parts, allowed) \o <<LF>>,
                  spawned |-> FALSE, kind |-> "rejected"]
            ELSE IF run.kind = "completed"
            THEN [reply |-> MSG_RESPONSE
                              \o (IF run.stdout # <<>> THEN run.stdout ELSE STR_EMPTY)
                              \o MSG_RESPONSE_ERROR
                              \o (IF run.stderr # <<>> THEN run.stderr ELSE STR_NONE)
                              \o <<LF>>,
                  spawned |-> TRUE, kind |-> "ran"]
            ELSE IF run.kind = "timeout"
            THEN [reply |-> MSG_TIMEOUT, spawned |-> TRUE, kind |-> "timeout"]
            ELSE IF run.kind = "oserror"
            THEN [reply |-> MSG_ERROR \o STR_ERRNO2 \o lex.parts[1] \o <<QUOTE, LF>>,
                  spawned |-> FALSE, kind |-> "failed"]
            ELSE [reply |-> <<>>, spawned |-> FALSE, kind |-> "norun"]
    IN  Try(allowed_cmds(name), shlex_split(exec_cmd))

\* the command reaches subprocess.run
ReachesRun(command, name) ==
    LET Passes(lex) == lex.error = <<>> /\ ~NotAllowed(lex.parts, allowed_cmds(name))
        Reaches(cmd_parts) ==
            /\ Len(cmd_parts) >= 2
            /\ Lower(cmd_parts[1]) = VERB_EXEC
            /\ Passes(shlex_split(Join(<<SPACE>>, Tail(cmd_parts))))
    IN  Reaches(Split(command))

\* the verbs whose handling reads further frames and files
IsTransfer(cmd_parts, main_cmd) ==
    \/ main_cmd \in {VERB_UPLOAD, VERB_DOWNLOAD}
    \/ main_cmd = VERB_SEND /\ Len(cmd_parts) > 1 /\ cmd_parts[2] = VERB_MESSAGE

NoRound ==
    [read |-> "none", branch |-> "none", exec_cmd |-> <<>>, spawned |-> FALSE,
     kind |-> "none", reply |-> <<>>, written |-> FALSE, ret |-> TRUE, filename |-> <<>>]

\* recv_and_process after its read: r is what recv_nvt_data returned, run what
\* subprocess.run does if it is called, sendok whether the writes to the
\* socket succeed.  The bytes written, the value returned, and what the round
\* did.  A write that raises in recv_nvt_data is ignored there; one that raises
\* in send_nvt_data ends in the handler returning False.
process_command(r, name, run, sendok) ==
    LET base == [NoRound EXCEPT !.read = "data"]
        Reply(auto, round, text, padded, ret) ==
            IF sendok
            THEN [round |-> [round EXCEPT !.reply = text, !.written = TRUE, !.ret = ret],
                  sent |-> auto \o send_nvt_data(text, padded)]
            ELSE [round |-> [round EXCEPT !.reply = text, !.ret = FALSE],
                  sent |-> auto]
        Exec(auto, exec_cmd) ==
            LET Answer(e) ==
                    Reply(auto,
                          [base EXCEPT !.branch = "exec", !.exec_cmd = exec_cmd,
                                       !.spawned = e.spawned, !.kind = e.kind],
                          e.reply, TRUE, TRUE)
            IN  Answer(ExecCommand(exec_cmd, name, run))
        Dispatch(auto, cmd_parts, main_cmd) ==
            IF main_cmd = VERB_EXEC
            THEN IF Len(cmd_parts) < 2
                 THEN Reply(auto, [base EXCEPT !.branch = "exec_none"],
                            MSG_NO_COMMAND, TRUE, TRUE)
                 ELSE Exec(auto, Join(<<SPACE>>, Tail(cmd_parts)))
            ELSE IF main_cmd = VERB_QUIT
            THEN Reply(auto, [base EXCEPT !.branch = "quit"], MSG_GOODBYE, FALSE, FALSE)
            ELSE IF main_cmd \in {VERB_UPLOAD, VERB_DOWNLOAD}
            THEN IF Len(cmd_parts) < 2
                 THEN Reply(auto, [base EXCEPT !.branch = "no_filename"],
                            MSG_NO_FILENAME, FALSE, TRUE)
                 ELSE [round |-> [base EXCEPT
                                    !.branch = IF main_cmd = VERB_UPLOAD THEN "upload"
                                               ELSE "download",
                                    !.filename = Join(<<SPACE>>, Tail(cmd_parts))],
                       sent |-> auto]
            ELSE IF IsTransfer(cmd_parts, main_cmd)
            THEN [round |-> [base EXCEPT !.branch = "transfer"], sent |-> auto]
            ELSE Reply(auto, [base EXCEPT !.branch = "unknown"],
                       MSG_UNKNOWN \o main_cmd \o <<LF>> \o MSG_AVAILABLE, FALSE, TRUE)
        Parse(auto, cmd_parts) ==
            IF r.text = <<>> \/ cmd_parts = <<>>
            THEN [round |-> [base EXCEPT !.branch = "empty"], sent |-> auto]
            ELSE Dispatch(auto, cmd_parts, Lower(cmd_parts[1]))
    IN  Parse(IF sendok THEN Join(<<>>, r.responses) ELSE <<>>, Split(r.text))

\* recv_and_process(given_socket, nvt_session, client_id)
recv_and_process(session, name, rcv, run, sendok) ==
    LET Process(r) ==
            LET Result(p) ==
                    [session |-> r.session, sent |-> p.sent,
                     round |-> [p.round EXCEPT !.read = rcv.kind]]
            IN  Result(process_command(r, name, run, sendok))
    IN  Process(recv_nvt_data(session, rcv))

\* ------------------------------------------------------------------------
\* src/web_client.py: recv_frame and the result of exec_command
\* ------------------------------------------------------------------------
\* recv_frame(): the text returned and the session after the call; the
\* responses of receive_data are dropped
recv_frame(session, rcv) ==
    IF rcv.kind # "data"
    THEN [text |-> <<>>, session |-> session]
    ELSE LET Result(r) == [text |-> Strip(r.text), session |-> r.session]
         IN  Result(receive_data(session, rcv.data))

\* the dict exec_command returns for the frame text output
exec_result(cmd, output) ==
    LET Result(stdout, stderr) ==
            [status |-> "Executed", command |-> cmd, stdout |-> stdout, stderr |-> stderr,
             full_output |-> output, exit_code |-> IF stderr = <<>> THEN 0 ELSE 1]
        Sections(parts) ==
            LET Both(output_part) ==
                    Result(IF Len(output_part) > 0 THEN Strip(output_part[1]) ELSE <<>>,
                           IF Len(output_part) > 1 THEN Strip(output_part[2]) ELSE <<>>)
            IN  IF Len(parts) > 1 THEN Both(SplitOnce(parts[2], ERROR_TAG))
                ELSE Result(<<>>, <<>>)
    IN  IF Contains(output, OUTPUT_TAG) /\ Contains(output, ERROR_TAG)
        THEN Sections(SplitOnce(output, OUTPUT_TAG))
        ELSE Result(Strip(output), <<>>)

\* ------------------------------------------------------------------------
\* State
\* ------------------------------------------------------------------------
VARIABLES
    \* SpecCodec: the codec driven on one input
    c_src,      \* the input: [kind |-> "text", val |-> a str or bytes given to
                \* encode_text] or [kind |-> "wire", val |-> bytes as received]
    c_pc,       \* "start", then "feeding" once the byte stream is fixed
    c_orig,     \* the whole byte stream
    c_wire,     \* the part of it not yet given to decode_bytes
    c_decoder,  \* the NVTDecoder the stream is fed to
    c_text,     \* the texts decode_bytes returned so far, concatenated
    c_cmds,     \* the command lists it returned so far, concatenated
    c_calls     \* the number of decode_bytes calls made

codecVars == <<c_src, c_pc, c_orig, c_wire, c_decoder, c_text, c_cmds, c_calls>>

VARIABLES
    \* SpecSession and SpecRespond: one NVTSession and the calls made on it
    s_sess,     \* the session
    s_last      \* the last call: [op, args, ret, text]

sessVars == <<s_sess, s_last>>

VARIABLES
    \* SpecServer: one connection, the server worker that serves it and the
    \* client that holds it
    os_name,    \* os.name on the server
    n_c2s,      \* the bytes written by the client and not yet read by the worker
    n_s2c,      \* the bytes written by the worker and not yet read by the client
    n_cup,      \* the client's socket is open
    n_sup,      \* the worker's socket is open
    w_pc,       \* the worker: "none" (no connection accepted), "start", "loop",
                \* "finally", "closed"; in an upload "upload_size", "upload_data",
                \* "upload_save"; in a download "download", "download_data";
                \* "transfer" in send message, which is left out
    w_sess,     \* the worker's nvt_session
    w_round,    \* what the last round of the command loop did
    w_exec,     \* how the last exec command the worker handled ended: what
                \* subprocess.run gave and the reply text
    w_pending,  \* the options of the requests the worker read while the client's
                \* end was open and has not answered
    k_pc,       \* the client: "init", "idle", "exec_recv" (in exec_command,
                \* command sent), "gone"; in upload_file "up_size", "up_data",
                \* "up_recv"; in download_file "down_size", "down_data"
    k_sess,     \* the client's nvt_session
    k_cmd,      \* the cmd of the exec_command call in progress or last made
    k_result,   \* the dict the last client call returned
    k_execs,    \* the number of exec_command calls made
    k_pending   \* the options of the requests the client read while the worker's
                \* end was open and has not answered

serverVars ==
    <<os_name, n_c2s, n_s2c, n_cup, n_sup, w_pc, w_sess, w_round, w_exec, w_pending,
      k_pc, k_sess, k_cmd, k_result, k_execs, k_pending>>

VARIABLES
    \* SpecPad: one call of encode_with_padding
    p_text,     \* the text argument
    p_size,     \* the chunk_size argument
    p_out,      \* the bytes returned
    p_pc        \* "call", then "done"

padVars == <<p_text, p_size, p_out, p_pc>>

VARIABLES
    \* SpecTransfer: the files and the locals of upload and download, on top of
    \* the connection, the worker and the client of SpecServer
    x_files,    \* the server's uploads directory: file name -> content
    x_wleft,    \* the worker's remaining (upload)
    x_wdata,    \* the worker's received_data (upload), or the part of the file
                \* it has still to send (download)
    x_end,      \* why a transfer step of the worker ended in 'return False':
                \* "send", "recv", "timeout", "file"; "none" if none did
    x_kname,    \* the client's filename
    x_kfile,    \* the content of the client's file (upload)
    x_kexpected, \* the client's size (download)
    x_kleft,    \* the client's remaining (download)
    x_kdata,    \* the client's downloaded (download)
    x_saved,    \* the client's downloads directory: file name -> content
    x_ops       \* the number of upload_file and download_file calls made

xferVars ==
    <<x_files, x_wleft, x_wdata, x_end, x_kname, x_kfile, x_kexpected, x_kleft,
      x_kdata, x_saved, x_ops>>

\* the variables of the parts that stand alone
VARIABLES
    \* SpecLock: the module state of web_client.py and the threads calling it
    l_sock,     \* current_sock: "none" or "open"
    l_sess,     \* nvt_session: "none" or "ready"
    l_lock,     \* lock: the caller holding it, 0 if free
    l_op,       \* per caller: the operation it is in, "none" between calls
    l_pc,       \* per caller: the step of the operation it takes next
    l_ret       \* per caller: the status the last operation returned

lockVars == <<l_sock, l_sess, l_lock, l_op, l_pc, l_ret>>

VARIABLES
    \* SpecStore: two workers saving uploads under one file name
    s_file,     \* the content of uploads/<filename>
    s_data,     \* per worker: its received_data
    s_pc        \* per worker: "received", "opened", "written", "done"

storeVars == <<s_file, s_data, s_pc>>

VARIABLES
    \* SpecUpload: the upload branch of recv_and_process on one command text
    u_command,  \* the text recv_nvt_data returned for the command frame
    u_pc,       \* "command", "save", "done"
    u_filename, \* filename
    u_path,     \* save_path, None before it is computed
    u_file      \* the file open(save_path, 'wb') created: [dir, name], NoFile
                \* if none

uploadVars == <<u_command, u_pc, u_filename, u_path, u_file>>

VARIABLES
    \* SpecMessage and SpecFrames: the send_message calls made on the client
    \* and the worker's answers, on top of the connection of SpecServer
    m_msgs,     \* the msg of each send_message call made, in order
    m_acked,    \* the number of message bodies the worker has read
    m_wire      \* the bytes send_message has sent that have not yet arrived
                \* at the worker's socket

msgVars == <<m_msgs, m_acked, m_wire>>

VARIABLES
    \* SpecPool: the worker threads of two connections
    v_pc,       \* per worker: "none", "start" (thread started), "loop", "closed"
    v_sess,     \* per worker: the nvt_session of its client_handler call
    v_out,      \* per worker: the bytes it has written to its socket
    v_rounds,   \* per worker: the number of recv_and_process calls it has made
    v_round     \* per worker: what its last recv_and_process call did

poolVars == <<v_pc, v_sess, v_out, v_rounds, v_round>>

VARIABLES
    \* SpecSockets: the module state of src/web_client.py and the sockets its
    \* connect calls have created
    q_sock,     \* current_sock: 0 for None, or the number of a socket
    q_sess,     \* nvt_session: "none" for None, "ready"
    q_lock,     \* the caller holding lock, 0 if free
    q_op,       \* per caller: the operation it is in, "none" between calls
    q_pc,       \* per caller: its place in Steps(q_op)
    q_ret,      \* per caller: what its last operation returned
    q_state,    \* per socket: "unborn", "open" (created, not closed), "closed"
    q_wrote     \* per caller: whether its present call has written to a socket

sockVars == <<q_sock, q_sess, q_lock, q_op, q_pc, q_ret, q_state, q_wrote>>

VARIABLES
    \* SpecRace: the worker of one connection sending a file while the
    \* worker of another saves an upload under the same name
    d_file,     \* the content of the file in the uploads directory
    d_pc,       \* the download: "exists", "size", "open", "read", "done"
    d_size,     \* file_size, as sent in the size line
    d_pos,      \* the position of the download's file object
    d_sent,     \* the bytes the download has sent after the size line
    d_wpc,      \* the upload: "received", "opened", "written", "done"
    d_wdata     \* received_data of the upload

raceVars == <<d_file, d_pc, d_size, d_pos, d_sent, d_wpc, d_wdata>>

restVars ==
    <<padVars, lockVars, storeVars, uploadVars, msgVars, poolVars,
      sockVars, raceVars>>

\* the variables of the parts added to the codec, the session and the server
otherVars == <<restVars, xferVars>>

vars == <<codecVars, sessVars, serverVars, otherVars>>

\* the variables of a part that a specification does not drive
CodecIdle ==
    /\ c_src = [kind |-> "none", val |-> None]
    /\ c_pc = "off"
    /\ c_orig = <<>>
    /\ c_wire = <<>>
    /\ c_decoder = NVTDecoder
    /\ c_text = <<>>
    /\ c_cmds = <<>>
    /\ c_calls = 0

NoCall == [op |-> "none", args |-> <<>>, ret |-> <<>>, text |-> <<>>]

SessIdle ==
    /\ s_sess = NVTSession
    /\ s_last = NoCall

PadIdle ==
    /\ p_text = None
    /\ p_size = 0
    /\ p_out = <<>>
    /\ p_pc = "off"

XferIdle ==
    /\ x_files = EmptyDict
    /\ x_wleft = 0
    /\ x_wdata = <<>>
    /\ x_end = "none"
    /\ x_kname = <<>>
    /\ x_kfile = <<>>
    /\ x_kexpected = 0
    /\ x_kleft = 0
    /\ x_kdata = <<>>
    /\ x_saved = EmptyDict
    /\ x_ops = 0

LockIdle ==
    /\ l_sock = "none"
    /\ l_sess = "none"
    /\ l_lock = 0
    /\ l_op = <<>>
    /\ l_pc = <<>>
    /\ l_ret = <<>>

StoreIdle ==
    /\ s_file = <<>>
    /\ s_data = <<>>
    /\ s_pc = <<>>

NoFile == [dir |-> "none", name |-> <<>>]

UploadIdle ==
    /\ u_command = <<>>
    /\ u_pc = "off"
    /\ u_filename = <<>>
    /\ u_path = None
    /\ u_file = NoFile

MsgIdle ==
    /\ m_msgs = <<>>
    /\ m_acked = 0
    /\ m_wire = <<>>

PoolIdle ==
    /\ v_pc = <<>>
    /\ v_sess = <<>>
    /\ v_out = <<>>
    /\ v_rounds = <<>>
    /\ v_round = <<>>

SockIdle ==
    /\ q_sock = 0
    /\ q_sess = "none"
    /\ q_lock = 0
    /\ q_op = <<>>
    /\ q_pc = <<>>
    /\ q_ret = <<>>
    /\ q_state = <<>>
    /\ q_wrote = <<>>

RaceIdle ==
    /\ d_file = <<>>
    /\ d_pc = "off"
    /\ d_size = 0
    /\ d_pos = 0
    /\ d_sent = <<>>
    /\ d_wpc = "off"
    /\ d_wdata = <<>>

RestIdle ==
    PadIdle /\ LockIdle /\ StoreIdle /\ UploadIdle /\ MsgIdle /\ PoolIdle /\ SockIdle
    /\ RaceIdle

OtherIdle == RestIdle /\ XferIdle

NoExec == [kind |-> "none", cmd |-> <<>>, stdout |-> <<>>, stderr |-> <<>>, reply |-> <<>>]
NoResult == [status |-> "none"]

ServerIdle ==
    /\ os_name = "posix"
    /\ n_c2s = <<>>
    /\ n_s2c = <<>>
    /\ n_cup = FALSE
    /\ n_sup = FALSE
    /\ w_pc = "off"
    /\ w_sess = NVTSession
    /\ w_round = NoRound
    /\ w_exec = NoExec
    /\ w_pending = {}
    /\ k_pc = "off"
    /\ k_sess = NVTSession
    /\ k_cmd = <<>>
    /\ k_result = NoResult
    /\ k_execs = 0
    /\ k_pending = {}

\* ------------------------------------------------------------------------
\* SpecCodec: encode_text and decode_bytes on bounded inputs
\* ------------------------------------------------------------------------
\* code points of the texts: NUL, LF, CR, ' ', 'a', U+00FF
CodecChars == {NULL, LF, CR, SPACE, 97, 255}
\* bytes of the raw streams: text bytes and the bytes of IAC sequences
CodecBytes == {IAC, WILL, NOP, CR, LF, SPACE, 97}

CodecInputs ==
    {[kind |-> "text", val |-> S(t)] : t \in SeqsUpTo(CodecChars, MaxText)}
    \cup {[kind |-> "text", val |-> B(t)] : t \in SeqsUpTo(CodecChars, MaxText)}
    \cup {[kind |-> "wire", val |-> B(w)] : w \in SeqsUpTo(CodecBytes, MaxStream)}

CodecInit ==
    /\ c_src \in CodecInputs
    /\ c_pc = "start"
    /\ c_orig = <<>>
    /\ c_wire = <<>>
    /\ c_decoder = NVTDecoder
    /\ c_text = <<>>
    /\ c_cmds = <<>>
    /\ c_calls = 0
    /\ SessIdle
    /\ ServerIdle
    /\ OtherIdle

\* the sender encodes the text: encode_text(c_src.val)
CodecEncode ==
    /\ c_pc = "start"
    /\ c_src.kind = "text"
    /\ c_pc' = "feeding"
    /\ c_orig' = encode_text(c_src.val)
    /\ c_wire' = c_orig'
    /\ UNCHANGED <<sessVars, serverVars, otherVars, c_src, c_decoder, c_text, c_cmds, c_calls>>

\* the bytes arrive as they are
CodecArrive ==
    /\ c_pc = "start"
    /\ c_src.kind = "wire"
    /\ c_pc' = "feeding"
    /\ c_orig' = c_src.val.v
    /\ c_wire' = c_orig'
    /\ UNCHANGED <<sessVars, serverVars, otherVars, c_src, c_decoder, c_text, c_cmds, c_calls>>

\* decoder.decode_bytes(the next k bytes of the stream); an encoded text is
\* read whole, a raw stream in any pieces (an empty one too)
CodecDecode(k) ==
    /\ c_pc = "feeding"
    /\ c_calls < MaxCalls
    /\ c_src.kind = "text" => (c_calls = 0 /\ k = Len(c_wire))
    /\ LET Return(r) ==
               /\ c_decoder' = r.decoder
               /\ c_text' = c_text \o r.text
               /\ c_cmds' = c_cmds \o r.commands
       IN  Return(decode_bytes(c_decoder, SubSeq(c_wire, 1, k)))
    /\ c_wire' = From(c_wire, k + 1)
    /\ c_calls' = c_calls + 1
    /\ UNCHANGED <<sessVars, serverVars, otherVars, c_src, c_pc, c_orig>>

CodecNext ==
    \/ CodecEncode
    \/ CodecArrive
    \/ \E k \in 0..Len(c_wire) : CodecDecode(k)

SpecCodec == CodecInit /\ [][CodecNext]_vars

\* the whole stream decoded in one call by a fresh decoder
WholeDecode == decode_bytes(NVTDecoder, c_orig)

\* how often x occurs in the sequence s
Count(s, x) == Cardinality({i \in 1..Len(s) : s[i] = x})

\* C1: a stream fed to one decoder in two successive decode_bytes calls, split
\* at any position, yields the same concatenated text and the same command
\* list as one decode_bytes call on the whole stream by a fresh decoder.
C1_ChunkStable ==
    (c_pc = "feeding" /\ c_calls = 2 /\ c_wire = <<>>)
        => (c_text = WholeDecode.text /\ c_cmds = WholeDecode.commands)

\* normalize_newlines as the claim words it: every CR LF pair and every other
\* CR becomes one newline
normalize_newlines(t) == Replace(Replace(t, CRLF, <<LF>>), <<CR>>, <<LF>>)

\* a str given to encode_text and decoded back in one call by a fresh decoder
C2_Case ==
    /\ c_pc = "feeding" /\ c_calls = 1 /\ c_wire = <<>>
    /\ c_src.kind = "text" /\ c_src.val.t = "str"
    /\ Count(c_src.val.v, 255) = 0

\* C2 as claimed: decoding encode_text(t) returns normalize_newlines(t).
C2_RoundTripAsClaimed == C2_Case => c_text = normalize_newlines(c_src.val.v)

\* what the decoder makes of line endings: CR LF, then CR NUL, then any CR left
\* becomes one newline
DecodedNewlines(t) ==
    Replace(Replace(Replace(t, CRLF, <<LF>>), CR_NULL, <<LF>>), <<CR>>, <<LF>>)

\* C2 (amended): decoding encode_text(t) with a fresh decoder returns t with
\* every CR LF, then every CR NUL, then every remaining CR replaced by one
\* newline, and with leading and trailing whitespace stripped.
C2_RoundTrip == C2_Case => c_text = Strip(DecodedNewlines(c_src.val.v))

\* a text with a line ending inside and whitespace at an end, round-tripped
C2_Witness ==
    /\ C2_Case
    /\ c_src.val.v = <<SPACE, CR, LF, 97>>
    /\ c_orig = <<SPACE, CR, LF, 97>>
    /\ c_text = <<97>>

\* C3: every 0xFF of the input is doubled to FF FF by encode_text and comes
\* back from decode_bytes as exactly one literal 0xFF, with no command emitted.
C3_IacRoundTrip ==
    (c_pc = "feeding" /\ c_calls = 1 /\ c_wire = <<>> /\ c_src.kind = "text")
        => LET n == Count(c_src.val.v, 255)
           IN  /\ Count(c_orig, IAC) = 2 * n
               /\ Count(c_text, 255) = n
               /\ c_cmds = <<>>

\* C26: in the output of encode_text every CR is directly followed by LF or
\* NUL; an output does not end in CR
C26_CrPaired ==
    (c_src.kind = "text" /\ c_pc = "feeding")
        => \A i \in 1..Len(c_orig) :
              c_orig[i] = CR => (i < Len(c_orig) /\ c_orig[i + 1] \in {LF, NULL})

\* the UTF-8 data encode_text works on for the text given
EncodedData == Utf8Encode(IF c_src.val.t = "bytes" THEN Utf8Decode(c_src.val.v) ELSE c_src.val.v)

\* data from position i on put after out: an LF that does not follow a CR in
\* the output becomes CR LF, a 0xFF is doubled, every other byte is copied
RECURSIVE ExpandFrom(_, _, _)
ExpandFrom(data, i, out) ==
    IF i > Len(data) THEN out
    ELSE IF data[i] = LF /\ (out = <<>> \/ out[Len(out)] # CR)
    THEN ExpandFrom(data, i + 1, out \o <<CR, LF>>)
    ELSE IF data[i] = IAC THEN ExpandFrom(data, i + 1, out \o <<IAC, IAC>>)
    ELSE ExpandFrom(data, i + 1, Append(out, data[i]))

\* C27: the output of encode_text is the UTF-8 data of the text with every LF
\* that does not follow a CR expanded to CR LF and every other byte but 0xFF
\* copied in order, so that a CR LF of the input stays one CR LF; nothing is
\* added but the NUL after a final CR
C27_LfExpanded ==
    (c_src.kind = "text" /\ c_pc = "feeding")
        => LET Ended(out) ==
                   IF out # <<>> /\ out[Len(out)] = CR THEN Append(out, NULL) ELSE out
           IN  c_orig = Ended(ExpandFrom(EncodedData, 1, <<>>))

\* 'a', a bare LF and a CR LF pair encoded: the LF expanded, the pair kept
C27_Witness ==
    /\ c_src = [kind |-> "text", val |-> S(<<97, LF, CR, LF>>)]
    /\ c_pc = "feeding"
    /\ c_orig = <<97, CR, LF, CR, LF>>

\* the bytes a decode_bytes step takes from the stream
Fed == SubSeq(c_wire, 1, Len(c_wire) - Len(c_wire'))

\* what the loop of a decode_bytes step leaves: the cursor, the text buffer
\* and the commands
Decoded ==
    DecodeLoop(Fed,
               [in_iac |-> c_decoder.in_iac, iac_command |-> c_decoder.iac_command,
                text_buffer |-> <<>>, commands |-> <<>>],
               1, Len(Fed))

\* the bytes of data from position i on, taken one by one: buf and cmds are
\* the text buffer and the commands so far, esc says that the byte before was
\* an IAC that opened a sequence, verb is the WILL/WONT/DO/DONT byte of an
\* open negotiation, 0 if none
RECURSIVE ByteByByte(_, _, _, _, _, _)
ByteByByte(data, i, esc, verb, buf, cmds) ==
    IF i > Len(data) THEN [esc |-> esc, verb |-> verb, buf |-> buf, cmds |-> cmds]
    ELSE LET b == data[i]
         IN  IF verb # 0
             THEN ByteByByte(data, i + 1, FALSE, 0, buf,
                             Append(cmds, <<S(<<verb>>), B(<<b>>)>>))
             ELSE IF ~esc
             THEN IF b = IAC THEN ByteByByte(data, i + 1, TRUE, 0, buf, cmds)
                  ELSE ByteByByte(data, i + 1, FALSE, 0, Append(buf, b), cmds)
             ELSE IF b = IAC THEN ByteByByte(data, i + 1, FALSE, 0, Append(buf, IAC), cmds)
             ELSE IF b \in {WILL, WONT, DO, DONT}
             THEN ByteByByte(data, i + 1, TRUE, b, buf, cmds)
             ELSE IF b \in {SE, NOP, DM, BRK, IP, AO, AYT, EC, EL, GA}
             THEN ByteByByte(data, i + 1, FALSE, 0, buf,
                             Append(cmds, <<S(COMMAND), B(<<b>>)>>))
             ELSE ByteByByte(data, i + 1, FALSE, 0, buf, cmds)

\* C25: decode_bytes is defined on every input in every state of the decode
\* cursor, and handles the bytes one by one: IAC IAC puts one 0xFF into the
\* text buffer, IAC and a simple command byte gives one command without
\* option, IAC and any other byte that is not WILL/WONT/DO/DONT drops that
\* byte and leaves the cursor idle, the byte after IAC WILL/WONT/DO/DONT
\* completes a request, and every byte outside an IAC sequence is put into
\* the text buffer
C25_DecodeTotal ==
    [][c_calls' = c_calls + 1
         => LET Same(got, want) ==
                    /\ got.in_iac = (want.esc \/ want.verb # 0)
                    /\ got.iac_command = (IF want.verb = 0 THEN None ELSE B(<<want.verb>>))
                    /\ got.text_buffer = want.buf
                    /\ got.commands = want.cmds
                    /\ c_decoder' = [in_iac |-> got.in_iac, iac_command |-> got.iac_command]
                    /\ c_cmds' = c_cmds \o got.commands
                    /\ c_text' = c_text \o DecodeText(got.text_buffer)
            IN  Same(Decoded,
                     ByteByByte(Fed, 1, c_decoder.in_iac /\ c_decoder.iac_command = None,
                                IF c_decoder.in_iac /\ c_decoder.iac_command # None
                                THEN c_decoder.iac_command.v[1] ELSE 0,
                                <<>>, <<>>))]_vars

\* IAC 'a' 'a' has been decoded, in one call or more: the 'a' after IAC was
\* dropped, the cursor is idle and the second 'a' is the text
C25_Witness ==
    /\ c_src.kind = "wire"
    /\ c_orig = <<IAC, 97, 97>>
    /\ c_wire = <<>>
    /\ c_text = <<97>>
    /\ c_cmds = <<>>
    /\ c_decoder = NVTDecoder

\* the three states of the decode cursor: idle, after IAC, after IAC and one
\* of WILL/WONT/DO/DONT
CursorOk(d) ==
    \/ ~d.in_iac /\ d.iac_command = None
    \/ d.in_iac /\ d.iac_command = None
    \/ d.in_iac /\ d.iac_command \in {B(<<v>>) : v \in {WILL, WONT, DO, DONT}}

\* C30: between decode_bytes calls and after every byte a call consumes, the
\* cursor is idle (in_iac false, no command pending), after IAC (in_iac true,
\* no command pending) or awaiting an option (in_iac true, a WILL, WONT, DO
\* or DONT pending); a command is never pending while in_iac is false
C30_CursorStates ==
    [][/\ CursorOk(c_decoder)
       /\ CursorOk(c_decoder')
       /\ c_calls' = c_calls + 1
             => \A j \in 0..Len(Fed) :
                   CursorOk(DecodeLoop(Fed,
                                       [in_iac |-> c_decoder.in_iac,
                                        iac_command |-> c_decoder.iac_command,
                                        text_buffer |-> <<>>, commands |-> <<>>],
                                       1, j))]_vars

\* a call has ended between IAC WILL and the option byte, and the next call
\* has taken the option
C30_Witness ==
    /\ c_orig = <<IAC, WILL, 97>>
    /\ c_calls = 2
    /\ c_wire = <<>>
    /\ c_decoder = NVTDecoder
    /\ Len(c_cmds) = 1
    /\ c_text = <<>>

\* ------------------------------------------------------------------------
\* SpecSession: one NVTSession given chunks, as the server and the client do
\* ------------------------------------------------------------------------
\* bytes of the chunks: IAC, two verbs, an accepted and a refused option (the
\* option bytes are text bytes outside an IAC sequence)
SessBytes == {IAC, WILL, DO, NOP, ECHO, LINEMODE}
SessChunks == SeqsUpTo(SessBytes, MaxChunk)
\* options offered with negotiate_option
SessOptions == {B(<<ECHO>>), B(<<SUPPRESS_GO_AHEAD>>), B(<<LINEMODE>>)}
SessTexts == {S(<<97>>), S(<<97, LF>>)}

SessInit ==
    /\ s_sess = NVTSession
    /\ s_last = NoCall
    /\ CodecIdle
    /\ ServerIdle
    /\ OtherIdle

\* text, responses = session.receive_data(data)
SessReceive(data) ==
    LET Return(r) ==
            /\ s_sess' = r.session
            /\ s_last' = [op |-> "receive_data", args |-> <<data>>,
                          ret |-> r.responses, text |-> r.text]
    IN  /\ s_last = NoCall
        /\ Return(receive_data(s_sess, data))
        /\ UNCHANGED <<codecVars, serverVars, otherVars>>

\* negotiate_option recording its offer in the local table before any answer
SessNegotiate_Records(option_type, enable) ==
    /\ s_last = NoCall
    /\ s_last' = [op |-> "negotiate_option", args |-> <<option_type, enable>>,
                  ret |-> negotiate_option(option_type, enable), text |-> <<>>]
    /\ s_sess' = [s_sess EXCEPT !.local_options = DictSet(@, option_type, enable)]
    /\ UNCHANGED <<codecVars, serverVars, otherVars>>

\* session.negotiate_option(option_type, enable)
SessNegotiate(option_type, enable) ==
    /\ s_last = NoCall
    /\ s_last' = [op |-> "negotiate_option", args |-> <<option_type, enable>>,
                  ret |-> negotiate_option(option_type, enable), text |-> <<>>]
    /\ UNCHANGED <<codecVars, serverVars, otherVars, s_sess>>

\* session.send_text(text, chunk_size)
SessSendText(text, chunk_size) ==
    /\ s_last = NoCall
    /\ s_last' = [op |-> "send_text", args |-> <<text, chunk_size>>,
                  ret |-> send_text(text, chunk_size), text |-> <<>>]
    /\ UNCHANGED <<codecVars, serverVars, otherVars, s_sess>>

\* the caller takes what the call returned
SessReturn ==
    /\ s_last # NoCall
    /\ s_last' = NoCall
    /\ UNCHANGED <<codecVars, serverVars, otherVars, s_sess>>

SessNext ==
    \/ \E data \in SessChunks : SessReceive(data)
    \/ \E o \in SessOptions, e \in BOOLEAN : SessNegotiate(o, e)
    \/ \E t \in SessTexts, n \in {0, CHUNK_SIZE} : SessSendText(t, n)
    \/ SessReturn

SpecSession == SessInit /\ [][SessNext]_vars

\* a decoded command that is a negotiation: its verb is one of the four
IsNegotiation(command) ==
    /\ command[1].t = "str"
    /\ Len(command[1].v) = 1
    /\ command[1].v[1] \in NegotiationBytes

\* the IAC WILL/WONT/DO/DONT <option> sequences that data completes, given the
\* decode cursor it meets
CompletedRequests(decoder, data) == SelectSeq(decode_bytes(decoder, data).commands, IsNegotiation)

\* C4: the response list receive_data returns holds exactly one 3-byte reply
\* for each IAC WILL/WONT/DO/DONT <option> sequence completed in its input, in
\* the order of the sequences, and nothing else.
C4_OneReplyPerRequest ==
    [][s_last'.op = "receive_data"
         => LET reqs == CompletedRequests(s_sess.decoder, s_last'.args[1])
                ret == s_last'.ret
            IN  /\ Len(ret) = Len(reqs)
                /\ \A i \in 1..Len(reqs) :
                      /\ Len(ret[i]) = 3
                      /\ ret[i][1] = IAC
                      /\ ret[i][2] \in NegotiationBytes
                      /\ ret[i][3] = reqs[i][2].v[1]]_vars

\* C6: receive_data under its default policy: IAC WILL ECHO is answered
\* IAC DO ECHO and records remote ECHO = true, IAC WILL LINEMODE is answered
\* IAC DONT LINEMODE and records nothing; a WILL or DO is accepted exactly when
\* its option is ECHO, SUPPRESS-GO-AHEAD or TERMINAL-TYPE.
C6_DefaultPolicy ==
    [][(s_last'.op = "receive_data" /\ s_sess.decoder = NVTDecoder)
         => \A verb \in {WILL, DO}, o \in {ECHO, SUPPRESS_GO_AHEAD, TERMINAL_TYPE, LINEMODE} :
              s_last'.args[1] = <<IAC, verb, o>>
                => IF o \in {ECHO, SUPPRESS_GO_AHEAD, TERMINAL_TYPE}
                   THEN /\ s_last'.ret = <<(<<IAC, IF verb = WILL THEN DO ELSE WILL, o>>)>>
                        /\ verb = WILL =>
                             /\ B(<<o>>) \in DOMAIN s_sess'.remote_options
                             /\ s_sess'.remote_options[B(<<o>>)] = TRUE
                        /\ verb = DO =>
                             /\ B(<<o>>) \in DOMAIN s_sess'.local_options
                             /\ s_sess'.local_options[B(<<o>>)] = TRUE
                   ELSE /\ s_last'.ret = <<(<<IAC, IF verb = WILL THEN DONT ELSE WONT, o>>)>>
                        /\ s_sess'.remote_options = s_sess.remote_options
                        /\ s_sess'.local_options = s_sess.local_options]_vars

\* ------------------------------------------------------------------------
\* SpecRespond: respond_to_option called on one NVTSession
\* ------------------------------------------------------------------------
\* session.respond_to_option(command, option, accept)
RespondCall(command, option, accept) ==
    LET Return(r) ==
            /\ s_sess' = r.session
            /\ s_last' = [op |-> "respond_to_option", args |-> <<command, option, accept>>,
                          ret |-> r.ret, text |-> <<>>]
    IN  /\ s_last = NoCall
        /\ Return(respond_to_option(s_sess, command, option, accept))
        /\ UNCHANGED <<codecVars, serverVars, otherVars>>

RespondNext ==
    \/ \E c \in NegotiationBytes, o \in SessOptions, a \in BOOLEAN :
          RespondCall(B(<<c>>), o, a)
    \/ \E o \in SessOptions, e \in BOOLEAN : SessNegotiate(o, e)
    \/ SessReturn

SpecRespond == SessInit /\ [][RespondNext]_vars

\* ------------------------------------------------------------------------
\* SpecTables: every operation of one NVTSession, respond_to_option included
\* ------------------------------------------------------------------------
\* the option respond_to_option is called with
TableOptions == {B(<<ECHO>>)}

TablesNext ==
    \/ \E data \in SessChunks : SessReceive(data)
    \/ \E o \in SessOptions, e \in BOOLEAN : SessNegotiate(o, e)
    \/ \E t \in SessTexts, n \in {0, CHUNK_SIZE} : SessSendText(t, n)
    \/ \E c \in NegotiationBytes, o \in TableOptions, a \in BOOLEAN :
          RespondCall(B(<<c>>), o, a)
    \/ SessReturn

SpecTables == SessInit /\ [][TablesNext]_vars

\* the options whose entry differs between two option tables
Written(old, new) ==
    {o \in (DOMAIN old) \cup (DOMAIN new) :
        ~(o \in DOMAIN old /\ o \in DOMAIN new /\ old[o] = new[o])}

\* C22: a call on the session writes an entry of the local or the remote
\* option table only when it processes a completed WILL/WONT/DO/DONT request
\* for that option (DO or DONT for the local table, WILL or WONT for the
\* remote one): respond_to_option called with the request, or receive_data on
\* input that completes the IAC sequence of the request.  negotiate_option,
\* send_text and the decoding of text, of simple commands and of an unfinished
\* IAC sequence write neither table.
C22_TablesWritten ==
    [][LET reqs == IF s_last'.op = "receive_data"
                   THEN CompletedRequests(s_sess.decoder, s_last'.args[1])
                   ELSE <<>>
           Asked(o, verbs) ==
               \/ \E i \in 1..Len(reqs) : reqs[i][1].v[1] \in verbs /\ reqs[i][2] = o
               \/ /\ s_last'.op = "respond_to_option"
                  /\ s_last'.args[1].v[1] \in verbs
                  /\ s_last'.args[2] = o
       IN  /\ \A o \in Written(s_sess.local_options, s_sess'.local_options) :
                 Asked(o, {DO, DONT})
           /\ \A o \in Written(s_sess.remote_options, s_sess'.remote_options) :
                 Asked(o, {WILL, WONT})]_vars

\* both tables hold an entry written for a request, and the call after that
\* was a receive_data on a simple command, which left them as they were
C22_Witness ==
    /\ s_last.op = "receive_data"
    /\ s_last.args[1] = <<IAC, NOP>>
    /\ B(<<ECHO>>) \in DOMAIN s_sess.local_options
    /\ B(<<ECHO>>) \in DOMAIN s_sess.remote_options

\* C7: the transition table of respond_to_option.  WILL: with accept
\* remote[X] = true and reply IAC DO X, without accept reply IAC DONT X and no
\* change; DO: with accept local[X] = true and reply IAC WILL X, without accept
\* reply IAC WONT X and no change; WONT: remote[X] = false and reply IAC DONT X;
\* DONT: local[X] = false and reply IAC WONT X; a WILL or WONT never changes
\* the local table, a DO or DONT never the remote table.
C7_TransitionTable ==
    [][s_last'.op = "respond_to_option"
         => LET cmd == s_last'.args[1].v[1]
                X == s_last'.args[2]
                accept == s_last'.args[3]
                x == X.v[1]
                ret == s_last'.ret
                L == s_sess.local_options
                R == s_sess.remote_options
                L2 == s_sess'.local_options
                R2 == s_sess'.remote_options
                Sets(old, new, val) ==
                    /\ DOMAIN new = (DOMAIN old) \cup {X}
                    /\ new[X] = val
                    /\ \A k \in DOMAIN old : k # X => new[k] = old[k]
            IN  /\ cmd = WILL /\ accept => Sets(R, R2, TRUE) /\ L2 = L /\ ret = <<IAC, DO, x>>
                /\ cmd = WILL /\ ~accept => R2 = R /\ L2 = L /\ ret = <<IAC, DONT, x>>
                /\ cmd = DO /\ accept => Sets(L, L2, TRUE) /\ R2 = R /\ ret = <<IAC, WILL, x>>
                /\ cmd = DO /\ ~accept => L2 = L /\ R2 = R /\ ret = <<IAC, WONT, x>>
                /\ cmd = WONT => Sets(R, R2, FALSE) /\ L2 = L /\ ret = <<IAC, DONT, x>>
                /\ cmd = DONT => Sets(L, L2, FALSE) /\ R2 = R /\ ret = <<IAC, WONT, x>>
                /\ s_sess'.decoder = s_sess.decoder]_vars

\* a disable that follows an enable: ECHO was accepted from the remote side
\* and is then withdrawn by WONT
C7_Witness ==
    /\ s_last.op = "respond_to_option"
    /\ s_last.args = <<B(<<WONT>>), B(<<ECHO>>), TRUE>>
    /\ s_last.ret = <<IAC, DONT, ECHO>>
    /\ B(<<ECHO>>) \in DOMAIN s_sess.remote_options
    /\ s_sess.remote_options[B(<<ECHO>>)] = FALSE
    /\ B(<<LINEMODE>>) \in DOMAIN s_sess.local_options
    /\ s_sess.local_options[B(<<LINEMODE>>)] = TRUE

\* ------------------------------------------------------------------------
\* SpecPad: encode_with_padding called once on a text and a size
\* ------------------------------------------------------------------------
\* characters of the texts: plain, the line ends the encoder rewrites, and
\* U+00FF, which takes two bytes
PadChars == {LF, CR, 97, 255}

PadTexts ==
    {S(t) : t \in SeqsUpTo(PadChars, MaxPadText)}
    \cup {B(t) : t \in SeqsUpTo(PadChars, MaxPadText)}

PadInit ==
    /\ p_text \in PadTexts
    /\ p_size \in 0..MaxPad
    /\ p_out = <<>>
    /\ p_pc = "call"
    /\ CodecIdle
    /\ SessIdle
    /\ ServerIdle
    /\ XferIdle
    /\ LockIdle
    /\ StoreIdle
    /\ UploadIdle
    /\ MsgIdle
    /\ PoolIdle
    /\ SockIdle
    /\ RaceIdle

\* NVTEncoder.encode_with_padding(text, chunk_size)
PadCall ==
    /\ p_pc = "call"
    /\ p_out' = encode_with_padding(p_text, p_size)
    /\ p_pc' = "done"
    /\ UNCHANGED <<codecVars, sessVars, serverVars, xferVars, lockVars, storeVars,
                   uploadVars, msgVars, poolVars, sockVars,
                   raceVars, p_text, p_size>>

PadNext == PadCall

SpecPad == PadInit /\ [][PadNext]_vars

\* C16: when the encoding of the text is no longer than the size, the result
\* is exactly size bytes long, the encoding followed only by spaces; when it is
\* longer, the result is the encoding unchanged, longer than the size
C16_Padding ==
    p_pc = "done" =>
        LET encoded == encode_text(p_text)
        IN  IF Len(encoded) <= p_size
            THEN /\ Len(p_out) = p_size
                 /\ SubSeq(p_out, 1, Len(encoded)) = encoded
                 /\ \A i \in (Len(encoded) + 1)..p_size : p_out[i] = SPACE
            ELSE /\ p_out = encoded
                 /\ Len(p_out) > p_size

\* C16: a call has returned a text whose encoding differs from it (a line end)
\* padded with at least one space
C16_Witness ==
    /\ p_pc = "done"
    /\ p_text = S(<<97, LF>>)
    /\ Len(encode_text(p_text)) < p_size
    /\ p_out[p_size] = SPACE

\* ------------------------------------------------------------------------
\* SpecServer: one client, one connection and the server worker serving it
\* ------------------------------------------------------------------------
\* the cmd arguments of exec_command:
\* 'ls', 'dir', 'rm -rf /', '"ls"', 'ls"', ' '
ExecCmds ==
    {<<108, 115>>, <<100, 105, 114>>, <<114, 109, 32, 45, 114, 102, 32, 47>>,
     <<34, 108, 115, 34>>, <<108, 115, 34>>, <<32>>}

ServerInit ==
    /\ os_name \in {"posix", "nt"}
    /\ n_c2s = <<>>
    /\ n_s2c = <<>>
    /\ n_cup = FALSE
    /\ n_sup = FALSE
    /\ w_pc = "none"
    /\ w_sess = NVTSession
    /\ w_round = NoRound
    /\ w_exec = NoExec
    /\ w_pending = {}
    /\ k_pc = "init"
    /\ k_sess = NVTSession
    /\ k_cmd = <<>>
    /\ k_result = NoResult
    /\ k_execs = 0
    /\ k_pending = {}
    /\ CodecIdle
    /\ SessIdle
    /\ OtherIdle

\* the options of the IAC WILL/WONT/DO/DONT <option> requests that data
\* completes for a decoder
RequestedOptions(decoder, data) ==
    IF ~decoder.in_iac /\ \A i \in 1..Len(data) : data[i] # IAC THEN {}
    ELSE LET Options(reqs) == {reqs[i][2].v[1] : i \in 1..Len(reqs)}
         IN  Options(CompletedRequests(decoder, data))

\* the options of the 3-byte replies among responses
AnsweredOptions(responses) ==
    {responses[i][3] : i \in {j \in 1..Len(responses) : Len(responses[j]) = 3}}

\* what sock.recv(CHUNK_SIZE) can give when unread holds the bytes in flight
\* and the peer's socket is open or not
SocketReads(unread, peer_up) ==
    (IF unread # <<>>
     THEN {[kind |-> "data",
            data |-> SubSeq(unread, 1, IF Len(unread) < CHUNK_SIZE THEN Len(unread)
                                       ELSE CHUNK_SIZE)]}
     ELSE IF peer_up THEN {[kind |-> "timeout", data |-> <<>>]}
     ELSE {[kind |-> "eof", data |-> <<>>]})
    \cup (IF peer_up THEN {} ELSE {[kind |-> "error", data |-> <<>>]})

\* the bytes in flight after the read: a socket error drops them
AfterRead(unread, rcv) ==
    IF rcv.kind = "error" THEN <<>> ELSE From(unread, Len(rcv.data) + 1)

\* web_client.connect(host, port): the connection is set up and the server
\* accepts it and starts a worker, or it fails
ClientConnect(ok) ==
    /\ k_pc = "init"
    /\ IF ok
       THEN /\ k_pc' = "idle"
            /\ k_sess' = NVTSession
            /\ n_cup' = TRUE
            /\ n_sup' = TRUE
            /\ w_pc' = "start"
            /\ n_c2s' = n_c2s \o negotiate_option(B(<<SUPPRESS_GO_AHEAD>>), TRUE)
            /\ k_result' = [status |-> "Connected"]
       ELSE /\ k_result' = [status |-> "Error"]
            /\ UNCHANGED <<k_pc, k_sess, n_cup, n_sup, w_pc, n_c2s>>
    /\ UNCHANGED <<codecVars, sessVars, otherVars, os_name, n_s2c, w_sess, w_round, w_exec,
                   w_pending, k_cmd, k_execs, k_pending>>

\* web_client.exec_command(cmd), up to the send of the command frame; the
\* send can fail once the worker has closed its socket
ExecSend(cmd, sendok) ==
    /\ k_pc = "idle"
    /\ k_execs < MaxExecs
    /\ sendok \/ ~n_sup
    /\ k_execs' = k_execs + 1
    /\ k_cmd' = cmd
    /\ IF sendok
       THEN /\ n_c2s' = n_c2s \o send_text(S(EXEC_PREFIX \o cmd \o <<LF>>), CHUNK_SIZE)
            /\ k_pc' = "exec_recv"
            /\ UNCHANGED k_result
       ELSE /\ k_result' = [status |-> "Error"]
            /\ UNCHANGED <<n_c2s, k_pc>>
    /\ UNCHANGED <<codecVars, sessVars, otherVars, os_name, n_s2c, n_cup, n_sup, w_pc, w_sess,
                   w_round, w_exec, w_pending, k_sess, k_pending>>

\* web_client.exec_command(cmd), from recv_frame() to its return
ExecRecv(rcv) ==
    /\ k_pc = "exec_recv"
    /\ LET Return(f) ==
               /\ k_sess' = f.session
               /\ k_result' = exec_result(k_cmd, f.text)
       IN  Return(recv_frame(k_sess, rcv))
    /\ k_pending' = k_pending
                       \cup (IF n_sup THEN RequestedOptions(k_sess.decoder, rcv.data) ELSE {})
    /\ n_s2c' = AfterRead(n_s2c, rcv)
    /\ k_pc' = "idle"
    /\ UNCHANGED <<codecVars, sessVars, otherVars, os_name, n_c2s, n_cup, n_sup, w_pc, w_sess,
                   w_round, w_exec, w_pending, k_cmd, k_execs>>

\* web_client.disconnect(): the quit frame is sent and the socket closed; if
\* the send fails the socket is dropped all the same
ClientDisconnect(sendok) ==
    /\ k_pc = "idle"
    /\ sendok \/ ~n_sup
    /\ n_c2s' = IF sendok THEN n_c2s \o send_text(S(VERB_QUIT), CHUNK_SIZE) ELSE n_c2s
    /\ n_cup' = FALSE
    /\ k_pc' = "gone"
    /\ k_result' = [status |-> "Disconnected"]
    /\ UNCHANGED <<codecVars, sessVars, otherVars, os_name, n_s2c, n_sup, w_pc, w_sess,
                   w_round, w_exec, w_pending, k_sess, k_cmd, k_execs, k_pending>>

\* the client process ends, or the network drops the connection: the
\* client's end closes with no quit frame
ClientAbort ==
    /\ k_pc \notin {"off", "init", "gone"}
    /\ n_cup' = FALSE
    /\ k_pc' = "gone"
    /\ UNCHANGED <<codecVars, sessVars, otherVars, os_name, n_c2s, n_s2c, n_sup, w_pc, w_sess,
                   w_round, w_exec, w_pending, k_sess, k_cmd, k_result, k_execs, k_pending>>

\* client_handler up to its loop: the session is created and IAC WILL
\* SUPPRESS-GO-AHEAD sent; a send that raises leads to the finally clause
WorkerStart(sendok) ==
    /\ w_pc = "start"
    /\ sendok \/ ~n_cup
    /\ w_sess' = NVTSession
    /\ IF sendok
       THEN /\ n_s2c' = n_s2c \o negotiate_option(B(<<SUPPRESS_GO_AHEAD>>), TRUE)
            /\ w_pc' = "loop"
       ELSE /\ w_pc' = "finally"
            /\ UNCHANGED n_s2c
    /\ UNCHANGED <<codecVars, sessVars, otherVars, os_name, n_c2s, n_cup, n_sup, w_round,
                   w_exec, w_pending, k_pc, k_sess, k_cmd, k_result, k_execs, k_pending>>

\* one pass of 'while result: result = recv_and_process(...)': rcv is what the
\* read gives, run what subprocess.run does if the command reaches it, sendok
\* whether the writes succeed (they can fail once the client's end is closed)
WorkerRound(rcv) ==
    LET Round(r, requested) ==
            \E run \in (IF ReachesRun(r.text, os_name) THEN RunOutcomes ELSE {RunNone}),
               sendok \in (IF n_cup THEN {TRUE} ELSE BOOLEAN) :
               LET Done(p) ==
                       /\ w_sess' = r.session
                       /\ n_s2c' = n_s2c \o p.sent
                       /\ w_round' = [p.round EXCEPT !.read = rcv.kind]
                       /\ w_exec' = IF p.round.branch = "exec"
                                    THEN [kind |-> p.round.kind, cmd |-> p.round.exec_cmd,
                                          stdout |-> run.stdout, stderr |-> run.stderr,
                                          reply |-> p.round.reply]
                                    ELSE w_exec
                       /\ w_pc' = IF p.round.branch = "transfer" THEN "transfer"
                                  ELSE IF p.round.branch = "upload" THEN "upload_size"
                                  ELSE IF p.round.branch = "download" THEN "download"
                                  ELSE IF p.round.ret THEN "loop"
                                  ELSE "finally"
                       /\ w_pending' =
                             (w_pending \cup (IF n_cup THEN requested ELSE {}))
                               \ (IF sendok THEN AnsweredOptions(r.responses) ELSE {})
               IN  Done(process_command(r, os_name, run, sendok))
    IN  /\ w_pc = "loop"
        /\ Round(recv_nvt_data(w_sess, rcv), RequestedOptions(w_sess.decoder, rcv.data))
        /\ n_c2s' = AfterRead(n_c2s, rcv)
        /\ UNCHANGED <<codecVars, sessVars, otherVars, os_name, n_cup, n_sup, k_pc, k_sess, k_cmd,
                       k_result, k_execs, k_pending>>

\* the finally clause of client_handler: given_socket.close()
WorkerClose ==
    /\ w_pc = "finally"
    /\ n_sup' = FALSE
    /\ w_pc' = "closed"
    /\ UNCHANGED <<codecVars, sessVars, otherVars, os_name, n_c2s, n_s2c, n_cup, w_sess,
                   w_round, w_exec, w_pending, k_pc, k_sess, k_cmd, k_result, k_execs,
                   k_pending>>

\* the steps of the worker thread
Worker ==
    \/ \E sendok \in BOOLEAN : WorkerStart(sendok)
    \/ \E rcv \in SocketReads(n_c2s, n_cup) : WorkerRound(rcv)
    \/ WorkerClose

\* the calls made on the client, and its end
Client ==
    \/ \E ok \in BOOLEAN : ClientConnect(ok)
    \/ \E cmd \in ExecCmds, sendok \in BOOLEAN : ExecSend(cmd, sendok)
    \/ \E rcv \in SocketReads(n_s2c, n_sup) : ExecRecv(rcv)
    \/ \E sendok \in BOOLEAN : ClientDisconnect(sendok)
    \/ ClientAbort

ServerNext == Client \/ Worker

SpecServer == ServerInit /\ [][ServerNext]_vars

\* the reads of SocketReads that give no data
IdleReads(unread, peer_up) == {rcv \in SocketReads(unread, peer_up) : rcv.kind # "data"}

\* a pass of the worker's loop whose read gives no data
WorkerIdle == \E rcv \in IdleReads(n_c2s, n_cup) : WorkerRound(rcv)

\* the worker thread runs: it starts, a read that gives no data (after at most
\* 5 seconds) is followed by the next pass of the loop, and the finally clause
\* is run once reached
FairServer ==
    /\ SpecServer
    /\ WF_vars(\E sendok \in BOOLEAN : WorkerStart(sendok))
    /\ WF_vars(WorkerIdle)
    /\ WF_vars(WorkerClose)

\* the verbs that read further frames and files never reach the worker here
NoTransferVerb == w_pc \in {"none", "start", "loop", "finally", "closed"}

\* ------------------------------------------------------------------------
\* C5, C8: the worker and the client on the connection
\* ------------------------------------------------------------------------
\* C5: every WILL/WONT/DO/DONT request the worker or the client has read from
\* its socket (the peer's end being open) is followed by a reply for the same
\* option written to that socket: once the worker or the client has closed its
\* socket, when nothing more can be written to it, no request it read is left
\* without its reply
C5_RequestsAnswered ==
    /\ w_pc = "closed" => w_pending = {}
    /\ k_pc = "gone" => k_pending = {}

\* C8: once the worker's read has returned no data because the client closed
\* its end, or has failed with a socket error, the worker eventually leaves its
\* loop and closes its socket
C8_WorkerExits ==
    (w_pc = "loop" /\ w_round.read \in {"eof", "error"}) ~> (w_pc = "closed" /\ ~n_sup)

\* ------------------------------------------------------------------------
\* C9: the allowlist gate of the exec verb
\* ------------------------------------------------------------------------
\* the first whitespace-delimited word of the command line is an allowlist entry
WordAllowed(exec_cmd, name) ==
    LET Ok(words) == words # <<>> /\ words[1] \in Range(allowed_cmds(name))
    IN  Ok(Split(exec_cmd))

\* the command line splits into shell tokens and the first is an allowlist entry
TokenAllowed(exec_cmd, name) ==
    LET Ok(lex) ==
            lex.error = <<>> /\ lex.parts # <<>> /\ lex.parts[1] \in Range(allowed_cmds(name))
    IN  Ok(shlex_split(exec_cmd))

\* the step is a round of the worker's loop that handled an exec command line
ExecRound == Len(n_c2s') < Len(n_c2s) /\ w_round'.branch = "exec"

\* the bytes the step wrote to the worker's socket decode to an error text
ErrorReplySent ==
    /\ Len(n_s2c') > Len(n_s2c)
    /\ MatchAt(decode_nvt(From(n_s2c', Len(n_s2c) + 1)), MSG_ERROR, 1)

\* the worker is in its loop after the step, its socket open
StaysInLoop == w_pc' = "loop" /\ n_sup'

\* C9 as the specification states it, the first token being the first
\* whitespace-delimited word: a process is spawned only if that word is an
\* allowlist entry; otherwise none is spawned, an error reply is sent and the
\* worker stays in its loop with the connection open
C9_AllowlistGateAsClaimed ==
    [][ExecRound =>
         /\ w_round'.spawned => WordAllowed(w_round'.exec_cmd, os_name)
         /\ ~WordAllowed(w_round'.exec_cmd, os_name) =>
               ~w_round'.spawned /\ ErrorReplySent /\ StaysInLoop]_vars

\* C9: a process is spawned only if the command line splits into shell tokens
\* (shlex.split) and the first token is an allowlist entry; otherwise none is
\* spawned and, when the reply can be written (as it always can while the
\* client's end is open), an error reply is sent and the worker stays in its
\* loop with the connection open
C9_AllowlistGate ==
    [][ExecRound =>
         /\ w_round'.spawned => TokenAllowed(w_round'.exec_cmd, os_name)
         /\ ~TokenAllowed(w_round'.exec_cmd, os_name) =>
               /\ ~w_round'.spawned
               /\ (n_cup \/ w_round'.written) => ErrorReplySent /\ StaysInLoop]_vars

\* C9: the worker has rejected 'rm -rf /' without spawning, written its reply
\* to the open connection and is back in its loop
C9_Witness ==
    /\ w_round.branch = "exec"
    /\ w_round.exec_cmd = <<114, 109, 32, 45, 114, 102, 32, 47>>
    /\ ~TokenAllowed(w_round.exec_cmd, os_name)
    /\ ~w_round.spawned
    /\ w_round.written
    /\ n_cup
    /\ w_pc = "loop"
    /\ n_sup

\* ------------------------------------------------------------------------
\* C10: what exec_command reports for the worker's reply
\* ------------------------------------------------------------------------
\* exec_command has returned the dict built from the reply the worker wrote
\* for its exec command
ExecReplied ==
    /\ k_result.status = "Executed"
    /\ w_exec.kind # "none"
    /\ k_result.full_output = Strip(w_exec.reply)

IndicatesSuccess == k_result.exit_code = 0 /\ k_result.stderr = <<>>

\* C10: the result indicates success with stdout populated when the command
\* ran and wrote nothing to stderr, and does not indicate success when the
\* command was rejected, timed out or wrote to stderr
C10_ExecIndication ==
    ExecReplied =>
        /\ (w_exec.kind = "ran" /\ w_exec.stderr = <<>>)
              => (IndicatesSuccess /\ k_result.stdout # <<>>)
        /\ (w_exec.kind \in {"rejected", "timeout"}
              \/ (w_exec.kind = "ran" /\ w_exec.stderr # <<>>))
              => ~IndicatesSuccess

\* ------------------------------------------------------------------------
\* C15: the size of the frames on the wire
\* ------------------------------------------------------------------------
\* C15: every command frame the client writes, and every reply the worker
\* writes from its loop whose encoded text fits in a frame, adds exactly
\* CHUNK_SIZE bytes to the stream
C15_FrameSize ==
    [][/\ (k_pc = "idle" /\ Len(n_c2s') > Len(n_c2s))
            => Len(n_c2s') = Len(n_c2s) + CHUNK_SIZE
       /\ (/\ w_pc = "loop"
           /\ Len(n_s2c') > Len(n_s2c)
           /\ w_round'.written
           /\ Len(encode_text(S(w_round'.reply))) <= CHUNK_SIZE)
            => Len(n_s2c') = Len(n_s2c) + CHUNK_SIZE]_vars

\* ------------------------------------------------------------------------
\* SpecTransfer: one client, one connection and the worker serving it, the
\* client calling upload_file and download_file
\* ------------------------------------------------------------------------
\* 'f', the name of the file transferred
FILE_F == <<102>>
\* the byte the files are made of: 'a'
XferBytes == {97}
\* what a file can hold: 1..MaxFile bytes
XferContents == SeqsUpTo(XferBytes, MaxFile) \ {<<>>}

workerVars == <<w_pc, w_sess, w_round, w_exec, w_pending>>
clientVars == <<k_pc, k_sess, k_cmd, k_result, k_execs, k_pending>>
wLocals == <<x_wleft, x_wdata, x_end>>
kLocals == <<x_kname, x_kfile, x_kexpected, x_kleft, x_kdata, x_saved, x_ops>>
\* what no step of a transfer changes
quietVars == <<codecVars, sessVars, restVars, os_name>>

XferInit ==
    /\ os_name = "posix"
    /\ n_c2s = <<>>
    /\ n_s2c = <<>>
    /\ n_cup = FALSE
    /\ n_sup = FALSE
    /\ w_pc = "none"
    /\ w_sess = NVTSession
    /\ w_round = NoRound
    /\ w_exec = NoExec
    /\ w_pending = {}
    /\ k_pc = "init"
    /\ k_sess = NVTSession
    /\ k_cmd = <<>>
    /\ k_result = NoResult
    /\ k_execs = 0
    /\ k_pending = {}
    /\ x_files \in {EmptyDict} \cup {DictSet(EmptyDict, FILE_F, c) : c \in XferContents}
    /\ x_wleft = 0
    /\ x_wdata = <<>>
    /\ x_end = "none"
    /\ x_kname = <<>>
    /\ x_kfile = <<>>
    /\ x_kexpected = 0
    /\ x_kleft = 0
    /\ x_kdata = <<>>
    /\ x_saved = EmptyDict
    /\ x_ops = 0
    /\ CodecIdle
    /\ SessIdle
    /\ RestIdle

\* what sock.recv(k) can give when unread holds the bytes in flight: all it
\* can hold or a short read of up to short bytes; with nothing in flight the
\* read waits, and times out only if the peer is itself waiting (quiet), so
\* no byte is on its way
XferReads(unread, peer_up, k, quiet, short) ==
    LET Most(n) ==
            {[kind |-> "data", data |-> SubSeq(unread, 1, j)] :
                j \in {n} \cup {i \in 1..short : i < n}}
    IN  (IF unread # <<>> /\ k > 0
         THEN Most(IF Len(unread) < k THEN Len(unread) ELSE k)
         ELSE IF ~peer_up THEN {[kind |-> "eof", data |-> <<>>]}
         ELSE IF quiet THEN {[kind |-> "timeout", data |-> <<>>]}
         ELSE {})
        \cup (IF peer_up THEN {} ELSE {[kind |-> "error", data |-> <<>>]})

\* the client is not between two sends of one call
ClientWaits == k_pc \notin {"up_size", "up_data"}

\* the worker is in a read with nothing to read
WorkerWaits == n_c2s = <<>> /\ w_pc \in {"loop", "upload_size", "upload_data"}

\* the smaller of CHUNK_SIZE and remaining
ChunkOf(remaining) == IF remaining < CHUNK_SIZE THEN remaining ELSE CHUNK_SIZE

\* ---- the worker: the upload branch of recv_and_process -------------------
\* size_str = recv_nvt_data(..., timeout=3.0) and int(size_str)
WorkerUploadSize(rcv, sendok) ==
    LET Sized(r, parsed) ==
            /\ w_sess' = r.session
            /\ w_pending' =
                  (w_pending \cup (IF n_cup THEN RequestedOptions(w_sess.decoder, rcv.data)
                                   ELSE {}))
                    \ (IF sendok THEN AnsweredOptions(r.responses) ELSE {})
            /\ IF parsed.ok
               THEN /\ x_wleft' = parsed.val
                    /\ x_wdata' = <<>>
                    /\ w_pc' = IF parsed.val > 0 THEN "upload_data" ELSE "upload_save"
                    /\ n_s2c' = n_s2c \o (IF sendok THEN Join(<<>>, r.responses) ELSE <<>>)
                    /\ UNCHANGED x_end
               ELSE IF sendok
               THEN /\ n_s2c' = n_s2c \o Join(<<>>, r.responses)
                                      \o send_nvt_data(MSG_INVALID_SIZE, FALSE)
                    /\ w_pc' = "loop"
                    /\ UNCHANGED <<x_wleft, x_wdata, x_end>>
               ELSE /\ w_pc' = "finally"
                    /\ x_end' = "send"
                    /\ UNCHANGED <<n_s2c, x_wleft, x_wdata>>
        Parsed(r) == Sized(r, ParseInt(r.text))
    IN  /\ w_pc = "upload_size"
        /\ sendok \/ ~n_cup
        /\ Parsed(recv_nvt_data(w_sess, rcv))
        /\ n_c2s' = AfterRead(n_c2s, rcv)
        /\ UNCHANGED <<quietVars, n_cup, n_sup, w_round, w_exec, clientVars, x_files,
                       kLocals>>

\* one pass of 'while remaining > 0': chunk = given_socket.recv(min(CHUNK_SIZE,
\* remaining)); a read that raises (time-out, error) ends in 'return False'
WorkerUploadData(rcv) ==
    /\ w_pc = "upload_data"
    /\ n_c2s' = AfterRead(n_c2s, rcv)
    /\ IF rcv.kind = "data"
       THEN /\ x_wdata' = x_wdata \o rcv.data
            /\ x_wleft' = x_wleft - Len(rcv.data)
            /\ w_pc' = IF x_wleft - Len(rcv.data) > 0 THEN "upload_data" ELSE "upload_save"
            /\ UNCHANGED x_end
       ELSE IF rcv.kind = "eof"
       THEN /\ w_pc' = "upload_save"
            /\ UNCHANGED <<x_wdata, x_wleft, x_end>>
       ELSE /\ w_pc' = "finally"
            /\ x_end' = IF rcv.kind = "timeout" THEN "timeout" ELSE "recv"
            /\ UNCHANGED <<x_wdata, x_wleft>>
    /\ UNCHANGED <<quietVars, n_s2c, n_cup, n_sup, w_sess, w_round, w_exec, w_pending,
                   clientVars, x_files, kLocals>>

\* the acknowledgement of an upload of n bytes stored as filename
UploadAck(n, filename) ==
    MSG_RECEIVED \o IntToStr(n) \o MSG_BYTES_SAVED \o filename \o MSG_SAVED_END

\* os.makedirs, open(save_path, 'wb'), f.write(received_data) and the
\* acknowledgement; written says whether the file system takes the file
WorkerUploadSave(written, sendok) ==
    /\ w_pc = "upload_save"
    /\ sendok \/ ~n_cup
    /\ IF ~written
       THEN /\ w_pc' = "finally"
            /\ x_end' = "file"
            /\ UNCHANGED <<x_files, n_s2c>>
       ELSE /\ x_files' = DictSet(x_files, w_round.filename, x_wdata)
            /\ IF sendok
               THEN /\ n_s2c' = n_s2c \o send_nvt_data(UploadAck(Len(x_wdata), w_round.filename),
                                                       FALSE)
                    /\ w_pc' = "loop"
                    /\ UNCHANGED x_end
               ELSE /\ w_pc' = "finally"
                    /\ x_end' = "send"
                    /\ UNCHANGED n_s2c
    /\ UNCHANGED <<quietVars, n_c2s, n_cup, n_sup, w_sess, w_round, w_exec, w_pending,
                   clientVars, x_wleft, x_wdata, kLocals>>

\* ---- the worker: the download branch of recv_and_process -----------------
\* os.path.exists, the size line and open(file_path, 'rb'); opened says
\* whether the file can be opened
WorkerDownloadOpen(opened, sendok) ==
    /\ w_pc = "download"
    /\ sendok \/ ~n_cup
    /\ IF ~sendok
       THEN /\ w_pc' = "finally"
            /\ x_end' = "send"
            /\ UNCHANGED <<n_s2c, x_wdata>>
       ELSE IF w_round.filename \notin DOMAIN x_files
       THEN /\ n_s2c' = n_s2c \o SIZE_ZERO
            /\ w_pc' = "loop"
            /\ UNCHANGED <<x_end, x_wdata>>
       ELSE /\ n_s2c' = n_s2c \o IntToStr(Len(x_files[w_round.filename])) \o <<LF>>
            /\ IF opened
               THEN /\ x_wdata' = x_files[w_round.filename]
                    /\ w_pc' = "download_data"
                    /\ UNCHANGED x_end
               ELSE /\ w_pc' = "finally"
                    /\ x_end' = "file"
                    /\ UNCHANGED x_wdata
    /\ UNCHANGED <<quietVars, n_c2s, n_cup, n_sup, w_sess, w_round, w_exec, w_pending,
                   clientVars, x_files, x_wleft, kLocals>>

\* one pass of 'while True: chunk = f.read(CHUNK_SIZE)': the chunk is sent, or
\* the file is at its end and the handler returns True
WorkerDownloadData(sendok) ==
    /\ w_pc = "download_data"
    /\ sendok \/ ~n_cup
    /\ IF x_wdata = <<>>
       THEN /\ w_pc' = "loop"
            /\ UNCHANGED <<n_s2c, x_wdata, x_end>>
       ELSE IF sendok
       THEN /\ n_s2c' = n_s2c \o SubSeq(x_wdata, 1, ChunkOf(Len(x_wdata)))
            /\ x_wdata' = From(x_wdata, ChunkOf(Len(x_wdata)) + 1)
            /\ UNCHANGED <<w_pc, x_end>>
       ELSE /\ w_pc' = "finally"
            /\ x_end' = "send"
            /\ UNCHANGED <<n_s2c, x_wdata>>
    /\ UNCHANGED <<quietVars, n_c2s, n_cup, n_sup, w_sess, w_round, w_exec, w_pending,
                   clientVars, x_files, x_wleft, kLocals>>

\* ---- the client: upload_file ----------------------------------------------
\* upload_file(file_path) up to the send of the command frame; content is
\* what the file holds
UploadSendCommand(filename, content, sendok) ==
    /\ k_pc = "idle"
    /\ x_ops < MaxTransfers
    /\ sendok \/ ~n_sup
    /\ x_ops' = x_ops + 1
    /\ x_kname' = filename
    /\ x_kfile' = content
    /\ IF sendok
       THEN /\ n_c2s' = n_c2s \o send_text(S(UPLOAD_PREFIX \o filename), CHUNK_SIZE)
            /\ k_pc' = "up_size"
            /\ UNCHANGED k_result
       ELSE /\ k_result' = [status |-> "Error", error |-> "send"]
            /\ UNCHANGED <<n_c2s, k_pc>>
    /\ UNCHANGED <<quietVars, n_s2c, n_cup, n_sup, workerVars, k_sess, k_cmd, k_execs,
                   k_pending, x_files, wLocals, x_kexpected, x_kleft, x_kdata,
                   x_saved>>

\* the send of the size frame
UploadSendSize(sendok) ==
    /\ k_pc = "up_size"
    /\ sendok \/ ~n_sup
    /\ IF sendok
       THEN /\ n_c2s' = n_c2s \o send_text(S(IntToStr(Len(x_kfile))), CHUNK_SIZE)
            /\ k_pc' = IF x_kfile = <<>> THEN "up_recv" ELSE "up_data"
            /\ UNCHANGED k_result
       ELSE /\ k_result' = [status |-> "Error", error |-> "send"]
            /\ k_pc' = "idle"
            /\ UNCHANGED n_c2s
    /\ UNCHANGED <<quietVars, n_s2c, n_cup, n_sup, workerVars, k_sess, k_cmd, k_execs,
                   k_pending, xferVars>>

\* the sends of the file's bytes, CHUNK_SIZE at a time
UploadSendData(sendok) ==
    /\ k_pc = "up_data"
    /\ sendok \/ ~n_sup
    /\ IF sendok
       THEN /\ n_c2s' = n_c2s \o x_kfile
            /\ k_pc' = "up_recv"
            /\ UNCHANGED k_result
       ELSE /\ k_result' = [status |-> "Error", error |-> "send"]
            /\ k_pc' = "idle"
            /\ UNCHANGED n_c2s
    /\ UNCHANGED <<quietVars, n_s2c, n_cup, n_sup, workerVars, k_sess, k_cmd, k_execs,
                   k_pending, xferVars>>

\* ack = recv_frame() and the return of upload_file
UploadRecv(rcv) ==
    /\ k_pc = "up_recv"
    /\ LET Return(f) ==
               /\ k_sess' = f.session
               /\ k_result' = [status |-> "Uploaded", filename |-> x_kname,
                               size |-> Len(x_kfile), bytes_sent |-> Len(x_kfile),
                               server_ack |-> f.text]
       IN  Return(recv_frame(k_sess, rcv))
    /\ k_pending' = k_pending
                       \cup (IF n_sup THEN RequestedOptions(k_sess.decoder, rcv.data) ELSE {})
    /\ n_s2c' = AfterRead(n_s2c, rcv)
    /\ k_pc' = "idle"
    /\ UNCHANGED <<quietVars, n_c2s, n_cup, n_sup, workerVars, k_cmd, k_execs, xferVars>>

\* ---- the client: download_file --------------------------------------------
\* download_file(filename) up to the send of the command frame
DownloadSend(filename, sendok) ==
    /\ k_pc = "idle"
    /\ x_ops < MaxTransfers
    /\ sendok \/ ~n_sup
    /\ x_ops' = x_ops + 1
    /\ x_kname' = filename
    /\ IF sendok
       THEN /\ n_c2s' = n_c2s \o send_text(S(DOWNLOAD_PREFIX \o filename), CHUNK_SIZE)
            /\ k_pc' = "down_size"
            /\ UNCHANGED k_result
       ELSE /\ k_result' = [status |-> "Error", error |-> "send"]
            /\ UNCHANGED <<n_c2s, k_pc>>
    /\ UNCHANGED <<quietVars, n_s2c, n_cup, n_sup, workerVars, k_sess, k_cmd, k_execs,
                   k_pending, x_files, wLocals, x_kfile, x_kexpected, x_kleft, x_kdata,
                   x_saved>>

\* size_text = recv_frame(), the search for a number in it and the tests of
\* the size
DownloadSize(rcv) ==
    /\ k_pc = "down_size"
    /\ LET Sized(f, m) ==
               /\ k_sess' = f.session
               /\ IF ~m.found
                  THEN /\ k_result' = [status |-> "Error", error |-> "Invalid size",
                                       size_text |-> f.text]
                       /\ k_pc' = "idle"
                       /\ UNCHANGED <<x_kexpected, x_kleft, x_kdata>>
                  ELSE IF m.val = 0
                  THEN /\ k_result' = [status |-> "Error",
                                       error |-> "File not found on server"]
                       /\ k_pc' = "idle"
                       /\ UNCHANGED <<x_kexpected, x_kleft, x_kdata>>
                  ELSE /\ x_kexpected' = m.val
                       /\ x_kleft' = m.val
                       /\ x_kdata' = <<>>
                       /\ k_pc' = "down_data"
                       /\ UNCHANGED k_result
           Found(f) == Sized(f, FirstNumber(f.text))
       IN  Found(recv_frame(k_sess, rcv))
    /\ k_pending' = k_pending
                       \cup (IF n_sup THEN RequestedOptions(k_sess.decoder, rcv.data) ELSE {})
    /\ n_s2c' = AfterRead(n_s2c, rcv)
    /\ UNCHANGED <<quietVars, n_c2s, n_cup, n_sup, workerVars, k_cmd, k_execs, x_files,
                   wLocals, x_kname, x_kfile, x_saved, x_ops>>

\* the dict with the declared size in the place of the count of bytes received
Downloaded_AsDeclared(filename, data, size) ==
    [status |-> "Downloaded", filename |-> filename, received |-> size, expected |-> size]

\* the dict download_file returns after it has saved the bytes it has
Downloaded(filename, data, size) ==
    [status |-> "Downloaded", filename |-> filename, received |-> Len(data),
     expected |-> size]

\* one pass of 'while remaining > 0': chunk = current_sock.recv(min(CHUNK_SIZE,
\* remaining)); once the loop is left the bytes are saved and the dict
\* returned; a read that raises ends in the Error dict
DownloadData(rcv) ==
    /\ k_pc = "down_data"
    /\ n_s2c' = AfterRead(n_s2c, rcv)
    /\ IF rcv.kind = "data" /\ x_kleft - Len(rcv.data) > 0
       THEN /\ x_kdata' = x_kdata \o rcv.data
            /\ x_kleft' = x_kleft - Len(rcv.data)
            /\ UNCHANGED <<k_pc, k_result, x_saved>>
       ELSE IF rcv.kind \in {"data", "eof"}
       THEN /\ x_kdata' = x_kdata \o rcv.data
            /\ x_kleft' = x_kleft - Len(rcv.data)
            /\ x_saved' = DictSet(x_saved, x_kname, x_kdata \o rcv.data)
            /\ k_result' = Downloaded(x_kname, x_kdata \o rcv.data, x_kexpected)
            /\ k_pc' = "idle"
       ELSE /\ k_result' = [status |-> "Error", error |-> rcv.kind]
            /\ k_pc' = "idle"
            /\ UNCHANGED <<x_kdata, x_kleft, x_saved>>
    /\ UNCHANGED <<quietVars, n_c2s, n_cup, n_sup, workerVars, k_sess, k_cmd, k_execs,
                   k_pending, x_files, wLocals, x_kname, x_kfile, x_kexpected, x_ops>>

\* the client's end of the connection closes while a call is under way (the
\* process is ended or the network drops the connection); the last lost of the
\* bytes in flight do not arrive
CallAbort(lost) ==
    /\ k_pc \in {"up_size", "up_data", "up_recv", "down_size", "down_data"}
    /\ lost <= Len(n_c2s)
    /\ n_c2s' = SubSeq(n_c2s, 1, Len(n_c2s) - lost)
    /\ n_cup' = FALSE
    /\ k_pc' = "gone"
    /\ UNCHANGED <<quietVars, n_s2c, n_sup, workerVars, k_sess, k_cmd, k_result, k_execs,
                   k_pending, xferVars>>

\* the steps of the worker thread
XferWorker ==
    \/ \E sendok \in BOOLEAN : WorkerStart(sendok)
    \/ \E rcv \in XferReads(n_c2s, n_cup, CHUNK_SIZE, ClientWaits, 0) : WorkerRound(rcv)
    \/ \E rcv \in XferReads(n_c2s, n_cup, CHUNK_SIZE, ClientWaits, MaxShort),
          sendok \in BOOLEAN : WorkerUploadSize(rcv, sendok)
    \/ \E rcv \in XferReads(n_c2s, n_cup, ChunkOf(x_wleft), ClientWaits, MaxShort) :
          WorkerUploadData(rcv)
    \/ \E written \in BOOLEAN, sendok \in BOOLEAN : WorkerUploadSave(written, sendok)
    \/ \E opened \in BOOLEAN, sendok \in BOOLEAN : WorkerDownloadOpen(opened, sendok)
    \/ \E sendok \in BOOLEAN : WorkerDownloadData(sendok)
    \/ WorkerClose

\* the transfer calls made on the client, and the end of its connection
\* during a call
XferClient ==
    \/ \E ok \in BOOLEAN : ClientConnect(ok)
    \/ \E content \in XferContents, sendok \in BOOLEAN :
          UploadSendCommand(FILE_F, content, sendok)
    \/ \E sendok \in BOOLEAN : UploadSendSize(sendok)
    \/ \E sendok \in BOOLEAN : UploadSendData(sendok)
    \/ \E rcv \in XferReads(n_s2c, n_sup, CHUNK_SIZE, WorkerWaits, 0) : UploadRecv(rcv)
    \/ \E sendok \in BOOLEAN : DownloadSend(FILE_F, sendok)
    \/ \E rcv \in XferReads(n_s2c, n_sup, CHUNK_SIZE, WorkerWaits, 0) : DownloadSize(rcv)
    \/ \E rcv \in XferReads(n_s2c, n_sup, ChunkOf(x_kleft), WorkerWaits, MaxShort) :
          DownloadData(rcv)
    \/ \E lost \in 0..MaxLost : CallAbort(lost)

XferNext == XferClient \/ XferWorker

SpecTransfer == XferInit /\ [][XferNext]_vars

\* the bytes a step has added to the stream from the worker to the client
Sent == SubSeq(n_s2c', Len(n_s2c) + 1, Len(n_s2c'))

\* the worker stores the uploaded file and acknowledges it
UploadStored == w_pc = "upload_save" /\ w_pc' = "loop"

\* C11: when the client uploads a file of n bytes over a connection that stays
\* open (command frame, size frame, then the n bytes), the worker stores under
\* the file's name exactly the n bytes of the file and acknowledges n bytes,
\* however the bytes of the stream are split or coalesced by the reads
C11_UploadStored ==
    [][(UploadStored /\ n_cup /\ n_sup /\ x_kfile # <<>> /\ k_pc \in {"up_recv", "idle"})
          => /\ x_files' = DictSet(x_files, x_kname, x_kfile)
             /\ FirstNumber(Sent) = [found |-> TRUE, val |-> Len(x_kfile)]]_vars

\* download_file returns with the connection open at both ends
DownloadReturns ==
    /\ k_pc \in {"down_size", "down_data"}
    /\ k_pc' = "idle"
    /\ n_cup'
    /\ n_sup'

\* C12: when the client downloads an existing file of n > 0 bytes over a
\* connection that stays open, download_file returns received = expected = n
\* and saves exactly the n bytes of the file, however the size line, the
\* payload and earlier unread bytes of the server are split or coalesced
C12_DownloadComplete ==
    [][(DownloadReturns /\ x_kname \in DOMAIN x_files)
          => /\ k_result' = Downloaded(x_kname, x_files[x_kname], Len(x_files[x_kname]))
             /\ x_saved' = DictSet(x_saved, x_kname, x_files[x_kname])]_vars

\* the dict download_file returns for a size of 0
NotFound == [status |-> "Error", error |-> "File not found on server"]

\* C13: for a file that does not exist the worker writes "0\n" and nothing
\* else and stays in its loop, and download_file returns the dict with
\* status "Error" and error "File not found on server" and saves no file
C13_MissingFile ==
    [][/\ (/\ w_pc = "download" /\ w_pc' # "download"
           /\ w_round.filename \notin DOMAIN x_files /\ n_cup)
            => (Sent = SIZE_ZERO /\ w_pc' = "loop" /\ n_sup')
       /\ (DownloadReturns /\ x_kname \notin DOMAIN x_files)
            => (k_result' = NotFound /\ x_saved' = x_saved)]_vars

\* the worker leaves its command loop: recv_and_process has returned False
SessionEnds == w_pc # "finally" /\ w_pc' = "finally"

\* the step met a failure of the transport: the client's end is closed, or a
\* read or write of the socket raised
TransportFailed == ~n_cup \/ x_end' \in {"timeout", "recv", "send"}

\* the round read a command the worker cannot carry out as it stands
MalformedRound ==
    /\ w_pc = "loop"
    /\ Len(n_c2s') < Len(n_c2s)
    /\ w_round'.branch \in {"unknown", "no_filename", "exec_none"}

\* C14: the worker leaves its command loop only after quit or a failure of the
\* transport, and a command with an unknown verb or a missing argument is
\* answered with a reply, after which the worker is in its loop again
C14_SessionEnds ==
    [][/\ SessionEnds => (w_round'.branch = "quit" \/ TransportFailed)
       /\ (MalformedRound /\ n_cup) => (w_round'.written /\ w_pc' = "loop")]_vars

\* the worker cannot write the uploaded file, or a read of the payload raises
TransferFailed ==
    \/ w_pc = "upload_save" /\ x_end' = "file"
    \/ w_pc = "upload_data" /\ x_end' \in {"recv", "timeout"}

\* C20: when the worker cannot write an uploaded file, or a read of the
\* payload fails, with the client still connected, the worker writes an error
\* reply and is in its command loop again
C20_FailureReported ==
    [][(TransferFailed /\ n_cup) => (Sent # <<>> /\ w_pc' = "loop")]_vars

\* the worker's read of the payload finds the client's end closed, bytes still
\* missing and nothing left to read
UploadCutOff ==
    /\ w_pc = "upload_data"
    /\ w_pc' # "upload_data"
    /\ ~n_cup
    /\ n_c2s = <<>>

\* the worker saves what it has of an upload that was cut off
SavesCutOff ==
    /\ w_pc = "upload_save"
    /\ w_pc' # "upload_save"
    /\ x_wleft > 0
    /\ x_end' # "file"

\* the client's read of the payload finds the worker's end closed, bytes
\* still missing and nothing left to read
DownloadCutOff ==
    /\ k_pc = "down_data"
    /\ k_pc' = "idle"
    /\ ~n_sup
    /\ n_s2c = <<>>

Callers == 1..MaxCallers

\* the steps of each operation in the order of its code: "test" reads
\* current_sock, "lock" and "unlock" are the ends of 'with lock:', "open" is
\* the assignment of the new socket and session, "send" a send_text and the
\* send of its bytes, "recv" a read of the socket (in recv_frame with the
\* session's decoding), "clear" the close and the two assignments of None
Steps(op) ==
    CASE op = "connect" -> <<"lock", "open", "send", "unlock">>
      [] op = "disconnect" -> <<"lock", "test", "send", "clear", "unlock">>
      [] op = "send_message" -> <<"test", "lock", "send", "send", "recv", "unlock">>
      [] op = "exec_command" -> <<"test", "lock", "send", "recv", "unlock">>
      [] op = "upload_file" -> <<"test", "lock", "send", "send", "send", "recv", "unlock">>
      [] op = "download_file" -> <<"test", "lock", "send", "recv", "recv", "unlock">>

Operations ==
    {"connect", "disconnect", "send_message", "exec_command", "upload_file", "download_file"}

\* the step caller c takes next, "none" between calls
StepOf(c) == IF l_op[c] = "none" THEN "none" ELSE Steps(l_op[c])[l_pc[c]]

\* the place of "unlock" in the operation of caller c
UnlockOf(c) == Len(Steps(l_op[c]))

\* a lock that can be taken whoever holds it
acquire_Always(holder) == TRUE

\* lock.acquire(): the lock can be taken when no caller holds it
acquire(holder) == holder = 0

LockInit ==
    /\ l_sock = "none"
    /\ l_sess = "none"
    /\ l_lock = 0
    /\ l_op = [c \in Callers |-> "none"]
    /\ l_pc = [c \in Callers |-> 0]
    /\ l_ret = [c \in Callers |-> "none"]
    /\ CodecIdle
    /\ SessIdle
    /\ ServerIdle
    /\ PadIdle
    /\ StoreIdle
    /\ XferIdle
    /\ UploadIdle
    /\ MsgIdle
    /\ PoolIdle
    /\ SockIdle
    /\ RaceIdle

\* what no step of SpecLock changes
lockRest ==
    <<codecVars, sessVars, serverVars, padVars, storeVars, xferVars, uploadVars,
      msgVars, poolVars, sockVars, raceVars>>

\* a thread calls an operation
Call(c, op) ==
    /\ l_op[c] = "none"
    /\ l_op' = [l_op EXCEPT ![c] = op]
    /\ l_pc' = [l_pc EXCEPT ![c] = 1]
    /\ UNCHANGED <<lockRest, l_sock, l_sess, l_lock, l_ret>>

\* the operation returns status
Return(c, status) ==
    /\ l_op' = [l_op EXCEPT ![c] = "none"]
    /\ l_pc' = [l_pc EXCEPT ![c] = 0]
    /\ l_ret' = [l_ret EXCEPT ![c] = status]

\* 'if not current_sock: return {"status": "Error", "error": "Not connected"}'
\* before the lock is taken, and 'if current_sock:' of disconnect
Test(c) ==
    /\ StepOf(c) = "test"
    /\ IF l_sock = "open"
       THEN /\ l_pc' = [l_pc EXCEPT ![c] = @ + 1]
            /\ UNCHANGED <<l_op, l_ret>>
       ELSE IF l_op[c] = "disconnect"
       THEN /\ l_pc' = [l_pc EXCEPT ![c] = UnlockOf(c)]
            /\ l_ret' = [l_ret EXCEPT ![c] = "Not connected"]
            /\ UNCHANGED l_op
       ELSE Return(c, "Not connected")
    /\ UNCHANGED <<lockRest, l_sock, l_sess, l_lock>>

\* 'with lock:' is entered
Acquire(c) ==
    /\ StepOf(c) = "lock"
    /\ acquire(l_lock)
    /\ l_lock' = c
    /\ l_pc' = [l_pc EXCEPT ![c] = @ + 1]
    /\ l_ret' = [l_ret EXCEPT ![c] = "none"]
    /\ UNCHANGED <<lockRest, l_sock, l_sess, l_op>>

\* connect: the socket is created and connected and the session created; a
\* connect that raises leaves both None
Open(c, ok) ==
    /\ StepOf(c) = "open"
    /\ IF ok
       THEN /\ l_sock' = "open"
            /\ l_sess' = "ready"
            /\ l_pc' = [l_pc EXCEPT ![c] = @ + 1]
            /\ UNCHANGED l_ret
       ELSE /\ l_sock' = "none"
            /\ l_sess' = "none"
            /\ l_pc' = [l_pc EXCEPT ![c] = UnlockOf(c)]
            /\ l_ret' = [l_ret EXCEPT ![c] = "Error"]
    /\ UNCHANGED <<lockRest, l_lock, l_op>>

\* nvt_session.send_text(...) and current_sock.send(...); with no session the
\* call raises and the operation's except clause returns the Error dict
Send(c) ==
    /\ StepOf(c) = "send"
    /\ IF l_sess = "ready" /\ l_sock = "open"
       THEN /\ l_pc' = [l_pc EXCEPT ![c] = @ + 1]
            /\ UNCHANGED l_ret
       ELSE /\ l_pc' = [l_pc EXCEPT ![c] = UnlockOf(c)]
            /\ l_ret' = [l_ret EXCEPT ![c] = "Error"]
    /\ UNCHANGED <<lockRest, l_sock, l_sess, l_lock, l_op>>

\* a read of the socket
Recv(c) ==
    /\ StepOf(c) = "recv"
    /\ l_pc' = [l_pc EXCEPT ![c] = @ + 1]
    /\ UNCHANGED <<lockRest, l_sock, l_sess, l_lock, l_op, l_ret>>

\* disconnect: current_sock.close(), current_sock = None, nvt_session = None
Clear(c) ==
    /\ StepOf(c) = "clear"
    /\ l_sock' = "none"
    /\ l_sess' = "none"
    /\ l_pc' = [l_pc EXCEPT ![c] = @ + 1]
    /\ UNCHANGED <<lockRest, l_lock, l_op, l_ret>>

\* 'with lock:' is left and the operation returns
Release(c) ==
    /\ StepOf(c) = "unlock"
    /\ l_lock' = IF l_lock = c THEN 0 ELSE l_lock
    /\ Return(c, IF l_ret[c] = "none" THEN "Done" ELSE l_ret[c])
    /\ UNCHANGED <<lockRest, l_sock, l_sess>>

LockNext ==
    \/ \E c \in Callers, op \in Operations : Call(c, op)
    \/ \E c \in Callers : Test(c)
    \/ \E c \in Callers : Acquire(c)
    \/ \E c \in Callers, ok \in BOOLEAN : Open(c, ok)
    \/ \E c \in Callers : Send(c)
    \/ \E c \in Callers : Recv(c)
    \/ \E c \in Callers : Clear(c)
    \/ \E c \in Callers : Release(c)

SpecLock == LockInit /\ [][LockNext]_vars

\* caller c takes a step of its operation
Moves(c) == l_pc'[c] # l_pc[c]

\* caller c is between two of the writes and reads of one operation
MidOperation(c) ==
    /\ l_op[c] # "none"
    /\ \E i \in 1..(l_pc[c] - 1) : Steps(l_op[c])[i] \in {"open", "send", "recv"}
    /\ StepOf(c) \in {"send", "recv", "clear"}

\* C17 as claimed: every access an operation makes of the shared socket and
\* session, its first included, is made while its caller holds the lock
C17_LockedAsClaimed ==
    [][\A c \in Callers :
          (Moves(c) /\ StepOf(c) \in {"test", "open", "send", "recv", "clear"})
             => l_lock = c]_vars

\* C17 as the code has it: every write and read of the socket, every use of
\* the session's encoder and decoder and every assignment of the two is made
\* while the caller holds the lock, so no caller writes or reads while another
\* is between two writes or reads of its operation; the test 'if not
\* current_sock' that opens send_message, exec_command, upload_file and
\* download_file is made before the lock is taken
C17_NoInterleaving ==
    [][\A c \in Callers :
          /\ (Moves(c) /\ StepOf(c) \in {"open", "send", "recv", "clear"})
                => (l_lock = c /\ \A d \in Callers \ {c} : ~MidOperation(d))
          /\ (Moves(c) /\ StepOf(c) = "test" /\ l_op[c] # "disconnect") => l_lock # c]_vars

\* C17, reached: one caller is between two writes or reads of its operation
\* while another has passed its test of current_sock and waits for the lock
C17_Witness ==
    \E c \in Callers, d \in Callers :
       /\ c # d
       /\ MidOperation(c)
       /\ l_lock = c
       /\ StepOf(d) = "lock"
       /\ l_op[d] \in {"send_message", "exec_command", "upload_file", "download_file"}

\* ------------------------------------------------------------------------
\* SpecStore: the workers of two connections, each a thread of its own, saving
\* an upload under the same file name
\* ------------------------------------------------------------------------
\* the two worker threads
Writers == {1, 2}

\* the payload of worker w: 1..MaxFile bytes, 'a' for worker 1 and 'b' for
\* worker 2
Payloads(w) == SeqsUpTo({96 + w}, MaxFile) \ {<<>>}

\* 'c', the byte of a file stored before
OLD == 99

\* the file after data is written at its start: the bytes beyond the end of
\* data stay
WriteAtStart(file, data) == data \o SubSeq(file, Len(data) + 1, Len(file))

StoreInit ==
    /\ s_file \in SeqsUpTo({OLD}, MaxFile)
    /\ s_data \in [Writers -> UNION {Payloads(w) : w \in Writers}]
    /\ \A w \in Writers : s_data[w] \in Payloads(w)
    /\ s_pc = [w \in Writers |-> "received"]
    /\ CodecIdle
    /\ SessIdle
    /\ ServerIdle
    /\ PadIdle
    /\ LockIdle
    /\ XferIdle
    /\ UploadIdle
    /\ MsgIdle
    /\ PoolIdle
    /\ SockIdle
    /\ RaceIdle

\* what no step of SpecStore changes
storeRest ==
    <<codecVars, sessVars, serverVars, padVars, lockVars, xferVars, uploadVars,
      msgVars, poolVars, sockVars, raceVars>>

\* open(save_path, 'wb'): the file is created or truncated, the worker's
\* position in it is 0
StoreOpen(w) ==
    /\ s_pc[w] = "received"
    /\ s_file' = <<>>
    /\ s_pc' = [s_pc EXCEPT ![w] = "opened"]
    /\ UNCHANGED <<storeRest, s_data>>

\* f.write(received_data) and the end of the with block: the bytes are written
\* at the worker's position
StoreWrite(w) ==
    /\ s_pc[w] = "opened"
    /\ s_file' = WriteAtStart(s_file, s_data[w])
    /\ s_pc' = [s_pc EXCEPT ![w] = "written"]
    /\ UNCHANGED <<storeRest, s_data>>

\* the acknowledgement is sent and the handler returns
StoreAck(w) ==
    /\ s_pc[w] = "written"
    /\ s_pc' = [s_pc EXCEPT ![w] = "done"]
    /\ UNCHANGED <<storeRest, s_file, s_data>>

StoreNext ==
    \/ \E w \in Writers : StoreOpen(w)
    \/ \E w \in Writers : StoreWrite(w)
    \/ \E w \in Writers : StoreAck(w)

SpecStore == StoreInit /\ [][StoreNext]_vars

\* C18: once both workers have finished an upload to the same file name, the
\* file holds exactly the payload of one of them
C18_LastWriterWins ==
    (\A w \in Writers : s_pc[w] = "done") => \E w \in Writers : s_file = s_data[w]

\* ------------------------------------------------------------------------
\* SpecUpload: the upload branch of recv_and_process from the command text to
\* the file it creates, on a POSIX server whose working directory holds
\* nothing but the uploads directory
\* ------------------------------------------------------------------------
\* '/'
SLASH == 47
\* '.'
DOT == 46
\* "uploads"
UPLOADS == <<117, 112, 108, 111, 97, 100, 115>>
\* '..'
DOTDOT == <<DOT, DOT>>

\* the characters of the names: a letter, the separator, the dot and a space
NameChars == {102, SLASH, DOT, SPACE}

\* the command texts: 'upload ' and a name, stripped as recv_nvt_data does
UploadCommands == {Strip(UPLOAD_PREFIX \o n) : n \in SeqsUpTo(NameChars, MaxName)}

\* os.path.join(a, b) of posixpath
PathJoin(a, b) ==
    IF b # <<>> /\ b[1] = SLASH THEN b
    ELSE IF a = <<>> \/ a[Len(a)] = SLASH THEN a \o b
    ELSE a \o <<SLASH>> \o b

\* path.split('/')
RECURSIVE Components(_)
Components(path) ==
    LET At(i) == IF i = 0 THEN <<path>>
                 ELSE <<SubSeq(path, 1, i - 1)>> \o Components(From(path, i + 1))
    IN  At(Find(path, <<SLASH>>))

\* os.path.basename(path) of posixpath
Basename(path) == LET Last(c) == c[Len(c)] IN Last(Components(path))

\* the directory one component leads to from directory at: "root" is '/',
\* "cwd" the working directory, "uploads" its uploads directory, "above" a
\* directory the working directory lies in, "lost" no directory
PathStep(at, comp) ==
    IF at = "lost" THEN "lost"
    ELSE IF comp \in {<<>>, <<DOT>>} THEN at
    ELSE IF comp = DOTDOT
    THEN CASE at = "uploads" -> "cwd"
           [] at = "cwd" -> "above"
           [] OTHER -> at
    ELSE IF at = "cwd" /\ comp = UPLOADS THEN "uploads"
    ELSE "lost"

\* the directory the components lead to from directory at
RECURSIVE PathWalk(_, _)
PathWalk(at, comps) ==
    IF comps = <<>> THEN at ELSE PathWalk(PathStep(at, Head(comps)), Tail(comps))

\* open(path, 'wb') where the process may write: the file created, NoFile if
\* the call raises (a directory of the path is missing, or the path names a
\* directory)
OpenForWrite(path) ==
    LET Make(dir, name) ==
            IF \/ dir = "lost"
               \/ name \in {<<>>, <<DOT>>, DOTDOT}
               \/ dir = "cwd" /\ name = UPLOADS
            THEN NoFile
            ELSE [dir |-> dir, name |-> name]
        Resolve(comps) ==
            Make(PathWalk(IF path # <<>> /\ path[1] = SLASH THEN "root" ELSE "cwd",
                          SubSeq(comps, 1, Len(comps) - 1)),
                 comps[Len(comps)])
    IN  Resolve(Components(path))

UploadInit ==
    /\ u_command \in UploadCommands
    /\ u_pc = "command"
    /\ u_filename = <<>>
    /\ u_path = None
    /\ u_file = NoFile
    /\ CodecIdle
    /\ SessIdle
    /\ ServerIdle
    /\ XferIdle
    /\ PadIdle
    /\ LockIdle
    /\ StoreIdle
    /\ MsgIdle
    /\ PoolIdle
    /\ SockIdle
    /\ RaceIdle

\* what no step of SpecUpload changes
uploadRest ==
    <<codecVars, sessVars, serverVars, xferVars, padVars, lockVars, storeVars,
      msgVars, poolVars, sockVars, raceVars>>

\* the upload branch up to the end of the data: the file name is taken from
\* the command; size_ok says whether the size frame holds a number
UploadName(size_ok) ==
    /\ u_pc = "command"
    /\ LET Branch(cmd_parts) ==
               IF /\ Len(cmd_parts) >= 2
                  /\ Lower(cmd_parts[1]) = VERB_UPLOAD
                  /\ size_ok
               THEN /\ u_filename' = Join(<<SPACE>>, Tail(cmd_parts))
                    /\ u_pc' = "save"
               ELSE /\ u_pc' = "done"
                    /\ UNCHANGED u_filename
       IN  Branch(Split(u_command))
    /\ UNCHANGED <<uploadRest, u_command, u_path, u_file>>

\* save_path, os.makedirs and open(save_path, 'wb'); permitted says whether
\* the process may write where the path leads
UploadSave(permitted) ==
    /\ u_pc = "save"
    /\ u_path' = S(PathJoin(UPLOADS, u_filename))
    /\ u_file' = IF permitted THEN OpenForWrite(PathJoin(UPLOADS, u_filename)) ELSE NoFile
    /\ u_pc' = "done"
    /\ UNCHANGED <<uploadRest, u_command, u_filename>>

UploadNext ==
    \/ \E size_ok \in BOOLEAN : UploadName(size_ok)
    \/ \E permitted \in BOOLEAN : UploadSave(permitted)

SpecUpload == UploadInit /\ [][UploadNext]_vars

\* C21: every file an upload creates lies directly in the uploads directory
\* and is named by the base name of the file name the client gave
C21_InUploads ==
    u_file # NoFile => u_file.dir = "uploads" /\ u_file.name = Basename(u_filename)

\* ------------------------------------------------------------------------
\* SpecMessage: send_message calls of the client and the send message branch
\* of the worker, on the connection of SpecServer.  What send_message sends
\* arrives at the worker's socket whole.
\* ------------------------------------------------------------------------
\* 'send message'
SEND_MESSAGE == VERB_SEND \o <<SPACE>> \o VERB_MESSAGE
\* '[Server response] Got '
MSG_GOT ==
    <<91, 83, 101, 114, 118, 101, 114, 32, 114, 101, 115, 112, 111, 110, 115, 101, 93, 32,
      71, 111, 116, 32>>
\* ' bytes of your message.\n'
MSG_OF_MESSAGE ==
    <<32, 98, 121, 116, 101, 115, 32, 111, 102, 32, 121, 111, 117, 114, 32, 109, 101, 115,
      115, 97, 103, 101, 46, 10>>

\* the characters of the messages: 'a' and U+00FF, which takes two bytes
MsgChars == {97, 255}
Messages == SeqsUpTo(MsgChars, MaxMsg)

\* the response to a message of n characters
MessageAck(n) == MSG_GOT \o IntToStr(n) \o MSG_OF_MESSAGE

MsgInit ==
    /\ os_name = "posix"
    /\ n_c2s = <<>>
    /\ n_s2c = <<>>
    /\ n_cup = FALSE
    /\ n_sup = FALSE
    /\ w_pc = "none"
    /\ w_sess = NVTSession
    /\ w_round = NoRound
    /\ w_exec = NoExec
    /\ w_pending = {}
    /\ k_pc = "init"
    /\ k_sess = NVTSession
    /\ k_cmd = <<>>
    /\ k_result = NoResult
    /\ k_execs = 0
    /\ k_pending = {}
    /\ m_msgs = <<>>
    /\ m_acked = 0
    /\ m_wire = <<>>
    /\ CodecIdle
    /\ SessIdle
    /\ XferIdle
    /\ PadIdle
    /\ LockIdle
    /\ StoreIdle
    /\ UploadIdle
    /\ PoolIdle
    /\ SockIdle
    /\ RaceIdle

\* what the steps of the client and the worker in SpecMessage leave alone
msgRest ==
    <<codecVars, sessVars, xferVars, padVars, lockVars, storeVars, uploadVars,
      poolVars, sockVars, raceVars>>

\* send_message(msg) up to the send of the command frame
MessageSend(msg, sendok) ==
    /\ k_pc = "idle"
    /\ Len(m_msgs) < MaxMessages
    /\ sendok \/ ~n_sup
    /\ m_msgs' = Append(m_msgs, msg)
    /\ IF sendok
       THEN /\ m_wire' = m_wire \o send_text(S(SEND_MESSAGE), CHUNK_SIZE)
            /\ k_pc' = "msg_body"
            /\ UNCHANGED k_result
       ELSE /\ k_result' = [status |-> "Error"]
            /\ UNCHANGED <<m_wire, k_pc>>
    /\ UNCHANGED <<msgRest, os_name, n_c2s, n_s2c, n_cup, n_sup, w_pc, w_sess, w_round, w_exec,
                   w_pending, k_sess, k_cmd, k_execs, k_pending, m_acked>>

\* send_message: the send of the body frame
MessageBody(sendok) ==
    /\ k_pc = "msg_body"
    /\ sendok \/ ~n_sup
    /\ IF sendok
       THEN /\ m_wire' = m_wire \o send_text(S(m_msgs[Len(m_msgs)]), CHUNK_SIZE)
            /\ k_pc' = "msg_recv"
            /\ UNCHANGED k_result
       ELSE /\ k_result' = [status |-> "Error"]
            /\ k_pc' = "idle"
            /\ UNCHANGED m_wire
    /\ UNCHANGED <<msgRest, os_name, n_c2s, n_s2c, n_cup, n_sup, w_pc, w_sess, w_round, w_exec,
                   w_pending, k_sess, k_cmd, k_execs, k_pending, m_msgs, m_acked>>

\* send_message from recv_frame() to its return
MessageRecv(rcv) ==
    /\ k_pc = "msg_recv"
    /\ LET Result(f) ==
               /\ k_sess' = f.session
               /\ k_result' = [status |-> "Sent", message |-> m_msgs[Len(m_msgs)],
                               response |-> f.text]
       IN  Result(recv_frame(k_sess, rcv))
    /\ k_pending' = k_pending
                       \cup (IF n_sup THEN RequestedOptions(k_sess.decoder, rcv.data) ELSE {})
    /\ n_s2c' = AfterRead(n_s2c, rcv)
    /\ k_pc' = "idle"
    /\ UNCHANGED <<msgRest, msgVars, os_name, n_c2s, n_cup, n_sup, w_pc, w_sess, w_round,
                   w_exec, w_pending, k_cmd, k_execs>>

\* disconnect(), called when all that was sent has arrived
MessageQuit(sendok) ==
    /\ m_wire = <<>>
    /\ ClientDisconnect(sendok)

\* the first n bytes in transit arrive at the worker's socket
Deliver(n) ==
    /\ n \in 1..Len(m_wire)
    /\ n_c2s' = n_c2s \o SubSeq(m_wire, 1, n)
    /\ m_wire' = From(m_wire, n + 1)
    /\ UNCHANGED <<msgRest, os_name, n_s2c, n_cup, n_sup, w_pc, w_sess, w_round, w_exec,
                   w_pending, k_pc, k_sess, k_cmd, k_result, k_execs, k_pending, m_msgs,
                   m_acked>>

\* the send message branch of recv_and_process after the command: the body is
\* read with recv_nvt_data and answered with its length
WorkerMessage(rcv, sendok) ==
    LET Answer(r, response) ==
            /\ w_sess' = r.session
            /\ w_pending' =
                  (w_pending \cup (IF n_cup THEN RequestedOptions(w_sess.decoder, rcv.data)
                                   ELSE {}))
                    \ (IF sendok THEN AnsweredOptions(r.responses) ELSE {})
            /\ w_round' = [w_round EXCEPT !.reply = response, !.written = sendok,
                                          !.ret = sendok]
            /\ IF sendok
               THEN /\ n_s2c' = n_s2c \o Join(<<>>, r.responses)
                                      \o send_nvt_data(response, FALSE)
                    /\ w_pc' = "loop"
               ELSE /\ w_pc' = "finally"
                    /\ UNCHANGED n_s2c
        Got(r) == Answer(r, MessageAck(Len(r.text)))
    IN  /\ w_pc = "transfer"
        /\ sendok \/ ~n_cup
        /\ Got(recv_nvt_data(w_sess, rcv))
        /\ n_c2s' = AfterRead(n_c2s, rcv)
        /\ m_acked' = m_acked + 1
        /\ UNCHANGED <<msgRest, os_name, n_cup, n_sup, w_exec, k_pc, k_sess, k_cmd, k_result,
                       k_execs, k_pending, m_msgs, m_wire>>

\* the worker has nothing to read and nothing is on its way
MsgWorkerWaits == n_c2s = <<>> /\ m_wire = <<>> /\ w_pc \in {"loop", "transfer"}

\* no byte of the client is on its way and the client is not between the two
\* sends of a call
MsgClientWaits == m_wire = <<>> /\ k_pc # "msg_body"

MsgWorker ==
    \/ \E sendok \in BOOLEAN : WorkerStart(sendok)
    \/ \E rcv \in XferReads(n_c2s, n_cup, CHUNK_SIZE, MsgClientWaits, 0) : WorkerRound(rcv)
    \/ \E rcv \in XferReads(n_c2s, n_cup, CHUNK_SIZE, MsgClientWaits, 0), sendok \in BOOLEAN :
          WorkerMessage(rcv, sendok)
    \/ WorkerClose

MsgClient ==
    \/ \E ok \in BOOLEAN : ClientConnect(ok)
    \/ \E msg \in Messages, sendok \in BOOLEAN : MessageSend(msg, sendok)
    \/ \E sendok \in BOOLEAN : MessageBody(sendok)
    \/ \E rcv \in XferReads(n_s2c, n_sup, CHUNK_SIZE, MsgWorkerWaits, 0) : MessageRecv(rcv)
    \/ \E sendok \in BOOLEAN : MessageQuit(sendok)

MessageNext ==
    \/ MsgClient
    \/ MsgWorker
    \/ Deliver(Len(m_wire))

SpecMessage == MsgInit /\ [][MessageNext]_vars

\* C23: the acknowledgement the worker writes for the i-th message body it
\* reads carries the number of bytes of the i-th msg the client sent
C23_AckCount ==
    [][(w_pc = "transfer" /\ m_acked' = m_acked + 1 /\ m_acked' <= Len(m_msgs))
         => w_round'.reply = MessageAck(Len(Utf8Encode(m_msgs[m_acked'])))]_vars

\* ------------------------------------------------------------------------
\* SpecFrames: SpecMessage on a connection that may deliver the first bytes
\* of what send_message sent ahead of the rest
\* ------------------------------------------------------------------------
\* the first n bytes of a run of whole frames arrive alone
DeliverPart(n) ==
    /\ Len(m_wire) % CHUNK_SIZE = 0
    /\ n < Len(m_wire)
    /\ Deliver(n)

FramesNext ==
    \/ MsgClient
    \/ MsgWorker
    \/ Deliver(Len(m_wire))
    \/ \E n \in 1..MaxSplit : DeliverPart(n)

SpecFrames == MsgInit /\ [][FramesNext]_vars

\* the bytes a step takes from the head of the client's stream
Consumed == SubSeq(n_c2s, 1, Len(n_c2s) - Len(n_c2s'))

\* C24: a command read of the worker that gives a text gives the text of a
\* command frame the client sent ('send message' or 'quit' here), and the
\* worker takes up no more send message commands than the client sent: no
\* frame is split, merged, or read as part of another
C24_CommandsAsSent ==
    [][(w_pc = "loop" /\ w_round'.read = "data" /\ Len(n_c2s') < Len(n_c2s))
         => LET text == recv_nvt_data(w_sess, [kind |-> "data", data |-> Consumed]).text
            IN  /\ text \in {<<>>, SEND_MESSAGE, VERB_QUIT}
                /\ text = SEND_MESSAGE => m_acked < Len(m_msgs)]_vars

\* ------------------------------------------------------------------------
\* SpecPool: the accept loop of server_mode and the worker threads of two
\* connections, each running client_handler
\* ------------------------------------------------------------------------
\* the worker threads
PoolWorkers == {1, 2}

\* what a command read of a worker gives: an IAC, a WILL, 'a', 'quit',
\* nothing within the time-out, or no data because the client has closed
PoolReads ==
    {[kind |-> "data", data |-> d] : d \in {<<IAC>>, <<WILL>>, <<97>>, VERB_QUIT}}
    \cup {[kind |-> "timeout", data |-> <<>>], [kind |-> "eof", data |-> <<>>]}

\* one session object used by every worker
SessionOf_Shared(w) == 1

\* the session object worker w uses: nvt_session is a local variable of
\* client_handler, bound to the NVTSession() the call creates
SessionOf(w) == w

PoolInit ==
    /\ v_pc = [w \in PoolWorkers |-> "none"]
    /\ v_sess = [w \in PoolWorkers |-> NVTSession]
    /\ v_out = [w \in PoolWorkers |-> <<>>]
    /\ v_rounds = [w \in PoolWorkers |-> 0]
    /\ v_round = [w \in PoolWorkers |-> NoRound]
    /\ CodecIdle
    /\ SessIdle
    /\ ServerIdle
    /\ XferIdle
    /\ PadIdle
    /\ LockIdle
    /\ StoreIdle
    /\ UploadIdle
    /\ MsgIdle
    /\ SockIdle
    /\ RaceIdle

\* what no step of SpecPool changes
poolRest ==
    <<codecVars, sessVars, serverVars, xferVars, padVars, lockVars, storeVars,
      uploadVars, msgVars, sockVars, raceVars>>

\* server_mode accepts a connection and starts the thread of worker w
PoolAccept(w) ==
    /\ v_pc[w] = "none"
    /\ v_pc' = [v_pc EXCEPT ![w] = "start"]
    /\ UNCHANGED <<poolRest, v_sess, v_out, v_rounds, v_round>>

\* client_handler up to its loop: NVTSession() and the send of IAC WILL
\* SUPPRESS-GO-AHEAD; a send that raises leads to the close of the socket
PoolStart(w, sendok) ==
    /\ v_pc[w] = "start"
    /\ v_sess' = [v_sess EXCEPT ![SessionOf(w)] = NVTSession]
    /\ IF sendok
       THEN /\ v_out' = [v_out EXCEPT ![w] = @ \o negotiate_option(B(<<SUPPRESS_GO_AHEAD>>),
                                                                   TRUE)]
            /\ v_pc' = [v_pc EXCEPT ![w] = "loop"]
       ELSE /\ v_pc' = [v_pc EXCEPT ![w] = "closed"]
            /\ UNCHANGED v_out
    /\ UNCHANGED <<poolRest, v_rounds, v_round>>

\* one pass of the loop: recv_and_process on the worker's socket and session;
\* 'return False' ends the loop and the socket is closed
PoolRound(w, rcv, sendok) ==
    LET Done(r) ==
            /\ v_sess' = [v_sess EXCEPT ![SessionOf(w)] = r.session]
            /\ v_out' = [v_out EXCEPT ![w] = @ \o r.sent]
            /\ v_pc' = [v_pc EXCEPT ![w] = IF r.round.ret THEN "loop" ELSE "closed"]
            /\ v_round' = [v_round EXCEPT ![w] = r.round]
    IN  /\ v_pc[w] = "loop"
        /\ v_rounds[w] < MaxRounds
        /\ Done(recv_and_process(v_sess[SessionOf(w)], "posix", rcv, RunNone, sendok))
        /\ v_rounds' = [v_rounds EXCEPT ![w] = @ + 1]
        /\ UNCHANGED poolRest

PoolNext ==
    \/ \E w \in PoolWorkers : PoolAccept(w)
    \/ \E w \in PoolWorkers, sendok \in BOOLEAN : PoolStart(w, sendok)
    \/ \E w \in PoolWorkers, rcv \in PoolReads, sendok \in BOOLEAN : PoolRound(w, rcv, sendok)

SpecPool == PoolInit /\ [][PoolNext]_vars

\* worker w takes the step
PoolSteps(w) == v_pc'[w] # v_pc[w] \/ v_rounds'[w] # v_rounds[w]

\* C28: a worker that enters its command loop has a session of its own that
\* is new (empty option tables, idle cursor) and has written IAC WILL
\* SUPPRESS-GO-AHEAD and nothing else; it makes a command read only in the
\* loop, so after that write; and a step of one worker leaves the session and
\* the output of every other worker as they were, its own session after a
\* read being what recv_nvt_data makes of its own session before
C28_OwnSession ==
    [][\A w \in PoolWorkers :
          /\ (v_pc[w] = "start" /\ v_pc'[w] = "loop")
                => /\ v_sess'[w] = NVTSession
                   /\ v_out'[w] = <<IAC, WILL, SUPPRESS_GO_AHEAD>>
          /\ v_rounds'[w] # v_rounds[w]
                => /\ v_pc[w] = "loop"
                   /\ SubSeq(v_out[w], 1, 3) = <<IAC, WILL, SUPPRESS_GO_AHEAD>>
                   /\ \E rcv \in PoolReads : v_sess'[w] = recv_nvt_data(v_sess[w], rcv).session
          /\ PoolSteps(w)
                => \A u \in PoolWorkers \ {w} :
                      v_sess'[u] = v_sess[u] /\ v_out'[u] = v_out[u]]_vars

\* both workers are in their loops and have read; the cursor of the first is
\* inside an IAC sequence, that of the second idle
C28_Witness ==
    /\ v_pc[1] = "loop" /\ v_pc[2] = "loop"
    /\ v_rounds[1] > 0 /\ v_rounds[2] > 0
    /\ v_sess[1].decoder.in_iac
    /\ ~v_sess[2].decoder.in_iac

\* C29: a pass of the loop whose command read timed out or gave no data
\* writes nothing to the socket, takes no branch (so opens no file and runs no
\* command), leaves the option tables and the decode cursor of the session as
\* they were, and is followed by the next pass
C29_IdleRound ==
    [][\A w \in PoolWorkers :
          (v_rounds'[w] # v_rounds[w] /\ v_round'[w].read \in {"timeout", "eof"})
             => /\ v_out'[w] = v_out[w]
                /\ v_sess'[w] = v_sess[w]
                /\ v_round'[w].branch = "empty"
                /\ ~v_round'[w].written
                /\ ~v_round'[w].spawned
                /\ v_pc'[w] = "loop"]_vars

\* the read of a worker whose cursor is inside an IAC sequence has timed out
C29_Witness ==
    /\ v_round[1].read = "timeout"
    /\ v_rounds[1] = 2
    /\ v_sess[1].decoder.in_iac
    /\ v_pc[1] = "loop"

\* ------------------------------------------------------------------------
\* SpecSockets: the threads of the web application calling the operations of
\* src/web_client.py, with the sockets connect creates told apart and the
\* exceptions raised inside each operation
\* ------------------------------------------------------------------------
Sockets == 1..MaxSockets

\* the two threads that call the operations
SockCallers == {1, 2}

\* the step caller c takes next in SpecSockets, "none" between calls
SockStepOf(c) == IF q_op[c] = "none" THEN "none" ELSE Steps(q_op[c])[q_pc[c]]

\* the "status" of the dict an operation returns when nothing fails
StatusOf(op) ==
    CASE op = "connect" -> "Connected"
      [] op = "disconnect" -> "Disconnected"
      [] op = "send_message" -> "Sent"
      [] op = "exec_command" -> "Executed"
      [] op = "upload_file" -> "Uploaded"
      [] op = "download_file" -> "Downloaded"

\* what nvt_session.send_text(...) followed by current_sock.send(...) raises:
\* None has no attribute send_text, and a send on a failed connection raises
\* an OSError
SendRaises(sess, sendok) ==
    IF sess = "none" THEN "AttributeError" ELSE IF sendok THEN "none" ELSE "OSError"

\* an except clause that catches the errors of the socket only
Caught_SocketOnly(exc) == exc = "OSError"

\* 'except Exception as e:' of the operations: every exception raised in the
\* try block is caught
Caught(exc) == TRUE

\* a socket object loses its last reference: its descriptor is closed by the
\* finalizer, at once where the runtime counts references (prompt), otherwise
\* when the collector finds it
Drop(state, sock, prompt) ==
    IF sock # 0 /\ prompt THEN [state EXCEPT ![sock] = "closed"] ELSE state

SockInit ==
    /\ q_sock = 0
    /\ q_sess = "none"
    /\ q_lock = 0
    /\ q_op = [c \in SockCallers |-> "none"]
    /\ q_pc = [c \in SockCallers |-> 0]
    /\ q_ret = [c \in SockCallers |-> "none"]
    /\ q_state = [k \in Sockets |-> "unborn"]
    /\ q_wrote = [c \in SockCallers |-> FALSE]
    /\ CodecIdle
    /\ SessIdle
    /\ ServerIdle
    /\ PadIdle
    /\ LockIdle
    /\ StoreIdle
    /\ XferIdle
    /\ UploadIdle
    /\ MsgIdle
    /\ PoolIdle
    /\ RaceIdle

\* what no step of SpecSockets changes
sockRest ==
    <<codecVars, sessVars, serverVars, xferVars, padVars, lockVars, storeVars,
      uploadVars, msgVars, poolVars, raceVars>>

\* caller c goes on to its next step
SockAdvance(c) == q_pc' = [q_pc EXCEPT ![c] = @ + 1]

\* caller c goes to the end of its 'with lock:' block with status to return
SockLeave(c, status) ==
    /\ q_pc' = [q_pc EXCEPT ![c] = Len(Steps(q_op[c]))]
    /\ q_ret' = [q_ret EXCEPT ![c] = status]

\* a thread calls an operation; connect is called while a socket is left to
\* create
SockCall(c, op) ==
    /\ q_op[c] = "none"
    /\ op = "connect"
          => Cardinality({k \in Sockets : q_state[k] = "unborn"})
                > Cardinality({d \in SockCallers : q_op[d] = "connect" /\ q_pc[d] <= 2})
    /\ q_op' = [q_op EXCEPT ![c] = op]
    /\ q_pc' = [q_pc EXCEPT ![c] = 1]
    /\ q_wrote' = [q_wrote EXCEPT ![c] = FALSE]
    /\ UNCHANGED <<sockRest, q_sock, q_sess, q_lock, q_ret, q_state>>

\* 'if not current_sock:' before the lock is taken, and 'if current_sock:' of
\* disconnect inside it
SockTest(c) ==
    /\ SockStepOf(c) = "test"
    /\ IF q_sock # 0
       THEN SockAdvance(c) /\ UNCHANGED <<q_op, q_ret>>
       ELSE IF q_op[c] = "disconnect"
       THEN SockLeave(c, "Error") /\ UNCHANGED q_op
       ELSE /\ q_op' = [q_op EXCEPT ![c] = "none"]
            /\ q_pc' = [q_pc EXCEPT ![c] = 0]
            /\ q_ret' = [q_ret EXCEPT ![c] = "Error"]
    /\ UNCHANGED <<sockRest, q_sock, q_sess, q_lock, q_state, q_wrote>>

\* 'with lock:' is entered
SockAcquire(c) ==
    /\ SockStepOf(c) = "lock"
    /\ acquire(q_lock)
    /\ q_lock' = c
    /\ SockAdvance(c)
    /\ q_ret' = [q_ret EXCEPT ![c] = "none"]
    /\ UNCHANGED <<sockRest, q_sock, q_sess, q_op, q_state, q_wrote>>

\* connect, lines 24-28: current_sock is bound to a new socket, which drops
\* the socket it was bound to, and connected; if the connection is made the
\* session is created, otherwise the except clause binds both names to None,
\* which drops the new socket
SockOpen(c, ok, prompt) ==
    /\ SockStepOf(c) = "open"
    /\ \E k \in Sockets :
          /\ q_state[k] = "unborn"
          /\ \A j \in Sockets : j < k => q_state[j] # "unborn"
          /\ IF ok
             THEN /\ q_state' = [Drop(q_state, q_sock, prompt) EXCEPT ![k] = "open"]
                  /\ q_sock' = k
                  /\ q_sess' = "ready"
                  /\ SockAdvance(c)
                  /\ UNCHANGED q_ret
             ELSE /\ q_state' = Drop([Drop(q_state, q_sock, prompt) EXCEPT ![k] = "open"],
                                     k, prompt)
                  /\ q_sock' = 0
                  /\ q_sess' = "none"
                  /\ SockLeave(c, "Error")
    /\ UNCHANGED <<sockRest, q_lock, q_op, q_wrote>>

\* a send_text and the send of its bytes. In connect a failure binds both
\* names to None; in disconnect it is passed over, the close with it, and both
\* names are bound to None; in the other operations the except clause returns
\* the Error dict
SockSend(c, sendok, prompt) ==
    /\ SockStepOf(c) = "send"
    /\ LET exc == SendRaises(q_sess, sendok)
           cleared == /\ q_state' = Drop(q_state, q_sock, prompt)
                      /\ q_sock' = 0
                      /\ q_sess' = "none"
       IN /\ q_wrote' = [q_wrote EXCEPT ![c] = @ \/ exc # "AttributeError"]
          /\ IF exc = "none"
             THEN SockAdvance(c) /\ UNCHANGED <<q_ret, q_sock, q_sess, q_state>>
             ELSE IF q_op[c] = "connect"
             THEN cleared /\ SockLeave(c, "Error")
             ELSE IF q_op[c] = "disconnect"
             THEN cleared /\ SockLeave(c, "Disconnected")
             ELSE /\ SockLeave(c, IF Caught(exc) THEN "Error" ELSE "raised")
                  /\ UNCHANGED <<q_sock, q_sess, q_state>>
    /\ UNCHANGED <<sockRest, q_lock, q_op>>

\* a read of the socket: recv_frame returns "" whatever happens; a reply of
\* download_file that holds no size or the size 0, or a failing read of the
\* file's bytes, returns the Error dict
SockRecv(c, recvok) ==
    /\ SockStepOf(c) = "recv"
    /\ IF recvok \/ q_op[c] # "download_file"
       THEN SockAdvance(c) /\ UNCHANGED q_ret
       ELSE SockLeave(c, "Error")
    /\ UNCHANGED <<sockRest, q_sock, q_sess, q_lock, q_op, q_state, q_wrote>>

\* disconnect, lines 55-60: current_sock.close(), current_sock = None,
\* nvt_session = None
SockClear(c) ==
    /\ SockStepOf(c) = "clear"
    /\ q_state' = [q_state EXCEPT ![q_sock] = "closed"]
    /\ q_sock' = 0
    /\ q_sess' = "none"
    /\ SockAdvance(c)
    /\ UNCHANGED <<sockRest, q_lock, q_op, q_ret, q_wrote>>

\* 'with lock:' is left and the operation returns
SockRelease(c) ==
    /\ SockStepOf(c) = "unlock"
    /\ q_lock' = IF q_lock = c THEN 0 ELSE q_lock
    /\ q_op' = [q_op EXCEPT ![c] = "none"]
    /\ q_pc' = [q_pc EXCEPT ![c] = 0]
    /\ q_ret' = [q_ret EXCEPT ![c] = IF @ = "none" THEN StatusOf(q_op[c]) ELSE @]
    /\ UNCHANGED <<sockRest, q_sock, q_sess, q_state, q_wrote>>

\* the collector closes a socket nothing refers to
SockFinalize(k) ==
    /\ q_state[k] = "open"
    /\ q_sock # k
    /\ q_state' = [q_state EXCEPT ![k] = "closed"]
    /\ UNCHANGED <<sockRest, q_sock, q_sess, q_lock, q_op, q_pc, q_ret, q_wrote>>

SockNext ==
    \/ \E c \in SockCallers, op \in Operations : SockCall(c, op)
    \/ \E c \in SockCallers : SockTest(c)
    \/ \E c \in SockCallers : SockAcquire(c)
    \/ \E c \in SockCallers, ok \in BOOLEAN, prompt \in BOOLEAN : SockOpen(c, ok, prompt)
    \/ \E c \in SockCallers, sendok \in BOOLEAN, prompt \in BOOLEAN : SockSend(c, sendok, prompt)
    \/ \E c \in SockCallers, recvok \in BOOLEAN : SockRecv(c, recvok)
    \/ \E c \in SockCallers : SockClear(c)
    \/ \E c \in SockCallers : SockRelease(c)
    \/ \E k \in Sockets : SockFinalize(k)

SpecSockets == SockInit /\ [][SockNext]_vars

TestedOperations == {"send_message", "exec_command", "upload_file", "download_file"}

\* C32: a send_message, exec_command, upload_file or download_file call that
\* has passed its test of current_sock and holds the lock after the connection
\* was cleared writes to no socket, leaves current_sock and nvt_session None
\* and every socket as it was, raises nothing and returns the Error dict
C32_ClearedReturnsError ==
    [][\A c \in SockCallers :
          (/\ q_op[c] \in TestedOperations
           /\ q_lock = c
           /\ q_sock = 0
           /\ q_pc'[c] # q_pc[c])
             => /\ ~q_wrote'[c]
                /\ q_sock' = 0
                /\ q_sess' = "none"
                /\ q_state' = q_state
                /\ q_ret'[c] = "Error"]_vars

\* C32, reached: a download_file call that passed its test is about to return
\* Error, having written nothing, after another thread's disconnect returned
C32_Witness ==
    \E c \in SockCallers, d \in SockCallers :
       /\ c # d
       /\ q_op[c] = "download_file"
       /\ SockStepOf(c) = "unlock"
       /\ q_lock = c
       /\ q_ret[c] = "Error"
       /\ ~q_wrote[c]
       /\ q_sock = 0
       /\ q_ret[d] = "Disconnected"
       /\ q_op[d] = "none"
       /\ q_state[1] = "closed"

\* ------------------------------------------------------------------------
\* SpecRace: the download branch of recv_and_process in the worker of one
\* connection, on a connection that stays up, while the worker of another
\* connection saves an upload under the same file name
\* ------------------------------------------------------------------------
RaceInit ==
    /\ d_file \in SeqsUpTo({OLD}, MaxFile)
    /\ d_pc = "exists"
    /\ d_size = 0
    /\ d_pos = 0
    /\ d_sent = <<>>
    /\ d_wpc = "received"
    /\ d_wdata \in Payloads(1)
    /\ CodecIdle
    /\ SessIdle
    /\ ServerIdle
    /\ PadIdle
    /\ LockIdle
    /\ StoreIdle
    /\ XferIdle
    /\ UploadIdle
    /\ MsgIdle
    /\ PoolIdle
    /\ SockIdle

\* what no step of SpecRace changes
raceRest ==
    <<codecVars, sessVars, serverVars, xferVars, padVars, lockVars, storeVars,
      uploadVars, msgVars, poolVars, sockVars>>

\* f.read(n) at position pos: the bytes of the file from there, n at most
ReadAt(file, pos, n) ==
    SubSeq(file, pos + 1, IF pos + n < Len(file) THEN pos + n ELSE Len(file))

\* 'if not os.path.exists(file_path):' finds the file
RaceExists ==
    /\ d_pc = "exists"
    /\ d_pc' = "size"
    /\ UNCHANGED <<raceRest, d_file, d_size, d_pos, d_sent, d_wpc, d_wdata>>

\* file_size = os.path.getsize(file_path) and the send of the size line
RaceSize ==
    /\ d_pc = "size"
    /\ d_size' = Len(d_file)
    /\ d_pc' = "open"
    /\ UNCHANGED <<raceRest, d_file, d_pos, d_sent, d_wpc, d_wdata>>

\* 'with open(file_path, 'rb') as f:'
RaceOpen ==
    /\ d_pc = "open"
    /\ d_pos' = 0
    /\ d_pc' = "read"
    /\ UNCHANGED <<raceRest, d_file, d_size, d_sent, d_wpc, d_wdata>>

\* one pass of the loop: chunk = f.read(CHUNK_SIZE); an empty chunk ends the
\* loop, any other is sent whole
RaceRead ==
    /\ d_pc = "read"
    /\ IF ReadAt(d_file, d_pos, MaxRead) = <<>>
       THEN d_pc' = "done" /\ UNCHANGED <<d_pos, d_sent>>
       ELSE /\ d_sent' = d_sent \o ReadAt(d_file, d_pos, MaxRead)
            /\ d_pos' = d_pos + Len(ReadAt(d_file, d_pos, MaxRead))
            /\ UNCHANGED d_pc
    /\ UNCHANGED <<raceRest, d_file, d_size, d_wpc, d_wdata>>

\* the upload's open(save_path, 'wb'): the file is truncated
RaceUploadOpen ==
    /\ d_wpc = "received"
    /\ d_file' = <<>>
    /\ d_wpc' = "opened"
    /\ UNCHANGED <<raceRest, d_pc, d_size, d_pos, d_sent, d_wdata>>

\* the upload's f.write(received_data) and the end of its with block
RaceUploadWrite ==
    /\ d_wpc = "opened"
    /\ d_file' = WriteAtStart(d_file, d_wdata)
    /\ d_wpc' = "done"
    /\ UNCHANGED <<raceRest, d_pc, d_size, d_pos, d_sent, d_wdata>>

RaceNext ==
    \/ RaceExists
    \/ RaceSize
    \/ RaceOpen
    \/ RaceRead
    \/ RaceUploadOpen
    \/ RaceUploadWrite

SpecRace == RaceInit /\ [][RaceNext]_vars

\* C33: when the download of an existing file has ended, the bytes the worker
\* sent after the size line are as many as the size line declared, whether or
\* not another connection's upload wrote the same file meanwhile
C33_DeclaredSizeSent ==
    d_pc = "done" => Len(d_sent) = d_size
====
